---- MODULE Spec2Model ----
(***************************************************************************)
(* A model of multiclaude's worker lifecycle: the configuration resolver   *)
(* (src/src/config.ts), the launcher (src/src/launcher.ts) and the cleanup *)
(* and reset orchestrators (src/src/cleanup.ts), together with the part of *)
(* git, tmux and the filesystem those orchestrators drive.                 *)
(*                                                                         *)
(* Strings the code inspects character by character (names, paths, command *)
(* output) are sequences of one-character strings.                         *)
(***************************************************************************)
EXTENDS Integers, Sequences, FiniteSets, TLC

VARIABLES
    dirs,        \* filesystem: the directories that exist (paths)
    worktrees,   \* git: registered linked worktrees, [path, branch]
    branches,    \* git: local branch names
    windows,     \* tmux: windows of every session, [session, idx, name]
    hist,        \* the commands run so far, each [op, b, options, pre, tr, config]:
                 \* the command line, the external state it found, what it did
                 \* and this.config of its Launcher or Cleanup when it ended
    cfgIn,       \* loadConfig: environment, cwd, home and config files read
    cfgOut,      \* loadConfig: its outcome
    race,        \* launches running at the same time: where each one is
                 \* between its tmux commands, and what it holds
    proj,        \* init: the project directory it runs in, and its outcome
    run          \* runCommand: the child process of a call, and how the
                 \* promise it returned was settled

vars == <<dirs, worktrees, branches, windows, hist, cfgIn, cfgOut, race, proj, run>>

worldVars == <<dirs, worktrees, branches, windows, hist>>

cfgVars == <<cfgIn, cfgOut>>

\* what the commands run one after another never touch
sideVars == <<race, proj, run>>

(***************************************************************************)
(* Strings                                                                 *)
(***************************************************************************)

NL == "\n"

Unset == <<"<unset>">>

\* String.prototype.indexOf, counted from 1: the first index at which needle
\* occurs in hay, 0 when it does not
IndexOf(needle, hay) ==
    LET hits == {i \in 1..(Len(hay) - Len(needle) + 1) :
                    SubSeq(hay, i, i + Len(needle) - 1) = needle}
    IN  IF hits = {} THEN 0 ELSE CHOOSE i \in hits : \A j \in hits : i <= j

\* String.prototype.includes
IsSubstr(needle, hay) ==
    IndexOf(needle, hay) # 0

\* the start of a string (tmux matches a window target as the start of a name)
IsPrefix(p, s) ==
    Len(p) <= Len(s) /\ SubSeq(s, 1, Len(p)) = p

\* JavaScript truthiness of an optional string: undefined and "" are falsy
Truthy(s) ==
    s # Unset /\ s # <<>>

\* a || b on optional strings
OrElse(a, b) ==
    IF Truthy(a) THEN a ELSE b

\* path.join(dir, name) for a plain file name
PathJoin(dir, name) ==
    dir \o <<"/">> \o name

RECURSIVE LastSlash(_, _)
LastSlash(p, i) ==
    IF i = 0 THEN 0 ELSE IF p[i] = "/" THEN i ELSE LastSlash(p, i - 1)

\* path.basename
Basename(p) ==
    SubSeq(p, LastSlash(p, Len(p)) + 1, Len(p))

\* String.prototype.split(sep) for a non-empty separator
RECURSIVE SplitOn(_, _)
SplitOn(text, sep) ==
    LET i == IndexOf(sep, text)
    IN  IF i = 0 THEN <<text>>
        ELSE <<SubSeq(text, 1, i - 1)>> \o SplitOn(SubSeq(text, i + Len(sep), Len(text)), sep)

Whitespace == {NL, " "}

\* String.prototype.trim
RECURSIVE Trim(_)
Trim(text) ==
    IF text = <<>> THEN text
    ELSE IF text[1] \in Whitespace THEN Trim(Tail(text))
    ELSE IF text[Len(text)] \in Whitespace THEN Trim(SubSeq(text, 1, Len(text) - 1))
    ELSE text

\* String.prototype.replace(pattern, '') for a string pattern: the first
\* occurrence only
RemoveFirst(text, pattern) ==
    LET i == IndexOf(pattern, text)
    IN  IF i = 0 THEN text
        ELSE SubSeq(text, 1, i - 1) \o SubSeq(text, i + Len(pattern), Len(text))

\* the part of text from index i up to the end of its line
RestOfLine(text, i) ==
    LET rest == SubSeq(text, i, Len(text))
    IN  SplitOn(rest, <<NL>>)[1]

\* text.split('\n').filter((s) => s.length > 0) of trimmed command output
Lines(text) ==
    SelectSeq(SplitOn(Trim(text), <<NL>>), LAMBDA l : Len(l) > 0)

(***************************************************************************)
(* Configuration resolver: src/src/config.ts                               *)
(***************************************************************************)

S_humanlayer == <<".", "h", "u", "m", "a", "n", "l", "a", "y", "e", "r">>

S_worktrees == <<"w", "o", "r", "k", "t", "r", "e", "e", "s">>

S_agents == <<"-", "a", "g", "e", "n", "t", "s">>

S_main == <<"m", "a", "i", "n">>

S_defaultConfigPath == <<".", "m", "u", "l", "t", "i", "c", "l", "a", "u", "d", "e", "/", "c", "o", "n", "f", "i", "g", ".", "j", "s", "o", "n">>

\* A file the resolver may read is [kind, worktreeDir, tmuxSession, repoName,
\* defaultBranch]: kind says whether the file exists and what JSON.parse makes
\* of its text, the other fields are those of the parsed object (Unset: not there)
Absent == "absent"

Malformed == "malformed"

NullJson == "null"

JsonObject == "object"

NoFields(kind) ==
    [kind |-> kind, worktreeDir |-> Unset, tmuxSession |-> Unset,
     repoName |-> Unset, defaultBranch |-> Unset]

\* JSON.parse(fs.readFileSync(configPath)) either throws or yields a value;
\* reading a field of the parsed value null throws as well
ParseThrows(file) ==
    file.kind \in {Malformed, NullJson}

\* the file a config path names, among the files the input describes
FileAt(in, configPath) ==
    IF configPath = S_defaultConfigPath THEN in.fileDefault
    ELSE IF configPath = in.customPath THEN in.fileCustom
    ELSE NoFields(Absent)

\* `if (fileConfig.f) config.f = fileConfig.f`
Override(current, fileValue) ==
    IF Truthy(fileValue) THEN fileValue ELSE current

\* the four file overrides, lines 31-34
ApplyFile(config, file) ==
    [worktreeDir   |-> Override(config.worktreeDir, file.worktreeDir),
     tmuxSession   |-> Override(config.tmuxSession, file.tmuxSession),
     repoName      |-> Override(config.repoName, file.repoName),
     defaultBranch |-> Override(config.defaultBranch, file.defaultBranch)]

DefaultConfig(in) ==
    LET repoName == OrElse(in.envRepoName, Basename(in.cwd))
    IN  [worktreeDir   |-> PathJoin(PathJoin(in.home, S_humanlayer), S_worktrees),
         tmuxSession   |-> repoName \o S_agents,
         repoName      |-> repoName,
         defaultBranch |-> S_main]

EnvConfig(in) ==
    LET d == DefaultConfig(in)
    IN  [worktreeDir   |-> OrElse(in.envWorktreeDir, d.worktreeDir),
         tmuxSession   |-> OrElse(in.envTmuxSession, d.tmuxSession),
         repoName      |-> d.repoName,
         defaultBranch |-> d.defaultBranch]

\* process.env.MULTICLAUDE_CONFIG || '.multiclaude/config.json'
ConfigPath(in) ==
    OrElse(in.envConfig, S_defaultConfigPath)

\* the file loadConfig looks for
ConfigFile(in) ==
    FileAt(in, ConfigPath(in))

\* loadConfig with a catch block that falls back to defaultConfig
loadConfigDefaultsOnError(in) ==
    LET config == EnvConfig(in)
        file   == ConfigFile(in)
    IN  IF file.kind = Absent
        THEN [config |-> config, warned |-> FALSE, threw |-> FALSE]
        ELSE IF ParseThrows(file)
        THEN [config |-> DefaultConfig(in), warned |-> TRUE, threw |-> FALSE]
        ELSE [config |-> ApplyFile(config, file), warned |-> FALSE, threw |-> FALSE]

\* loadConfig(): the configuration returned, whether a warning was printed
\* and whether an exception left the function
loadConfig(in) ==
    LET config == EnvConfig(in)
        file   == ConfigFile(in)
    IN  IF file.kind = Absent
        THEN [config |-> config, warned |-> FALSE, threw |-> FALSE]
        ELSE IF ParseThrows(file)
        THEN [config |-> config, warned |-> TRUE, threw |-> FALSE]
        ELSE [config |-> ApplyFile(config, file), warned |-> FALSE, threw |-> FALSE]

(***************************************************************************)
(* The invocation context of the lifecycle commands                        *)
(***************************************************************************)

\* Branch names given to launch and cleanup; N1 is the start of N2, and N2
\* carries the 'agent-' marker reset looks for in window names
N1 == <<"q", "a">>

N2 == <<"q", "a", "-", "a", "g", "e", "n", "t", "-", "1">>

Names == {N1, N2}

\* the working directory (the main checkout) and the home directory
Cwd == <<"/", "r">>

Home == <<"/", "h">>

\* tmux sessions, in the order `tmux list-sessions` prints them (by name);
\* neither name starts the other, so tmux's session lookup by prefix is moot
S_dev == <<"d", "e", "v">>

S_repoAgents == <<"r", "-", "a", "g", "e", "n", "t", "s">>

SessionOrder == <<S_dev, S_repoAgents>>

Sessions == {SessionOrder[i] : i \in 1..Len(SessionOrder)}

NoSession == <<>>

\* what the constructors read: MULTICLAUDE_WORKTREE_DIR=/w, no config file
MainCfgIn ==
    [envRepoName |-> Unset, envWorktreeDir |-> <<"/", "w">>, envTmuxSession |-> Unset,
     envConfig |-> Unset, cwd |-> Cwd, home |-> Home, customPath |-> <<"c">>,
     fileDefault |-> NoFields(Absent), fileCustom |-> NoFields(Absent)]

\* this.config of the Launcher or Cleanup at work: what loadConfig() returned
\* to its constructor
Config == cfgOut.out.config

\* worktreeDir of getWorktreeInfo and of removeWorktree:
\* path.join(config.worktreeDir, `${config.repoName}_${branchName}`)
WorktreePath(config, branchName) ==
    PathJoin(config.worktreeDir, config.repoName \o <<"_">> \o branchName)

Paths == {WorktreePath(Config, n) : n \in Names}

\* the most windows a session holds when the first command runs
MaxWin == 1

\* tmux base-index on the machines the tool targets (windows start at 1)
BaseIndex == 1

(***************************************************************************)
(* Events: what a command did, in order                                    *)
(***************************************************************************)

Ev(k, x, y, tgt, code, items) ==
    [k |-> k, x |-> x, y |-> y, tgt |-> tgt, code |-> code, items |-> items]

\* this.log / this.info / this.warn / this.error
Log(level, tag, tgt) == Ev("log", level, tag, tgt, 0, <<>>)

\* one runCommand (or fs call) that was made, with its exit code
Cmd(prog, sub, tgt, code) == Ev("cmd", prog, sub, tgt, code, <<>>)

\* promptForConfirmation, with the resources printed before it
Prompt(what, answer, items) == Ev("prompt", what, IF answer THEN "yes" ELSE "no", <<>>, 0, items)

\* in place of an exit code, for a command that could not be started: the
\* promise of runCommand is rejected
SpawnError == -1

\* the exit status of the process
Exit(code) == Ev("exit", "", "", <<>>, code, <<>>)

(***************************************************************************)
(* The process runner: runCommand of launcher.ts and cleanup.ts            *)
(***************************************************************************)

\* A child process ends in one of three ways: it exits with a status, it is
\* ended by a signal, or it cannot be started. Node then emits, in order,
\* 'close' with the status, 'close' with the code null, or 'error' (which
\* 'close' may follow); an event is [name, hasCode, code], hasCode FALSE
\* standing for the code null
ChildEvent(name, hasCode, code) ==
    [name |-> name, hasCode |-> hasCode, code |-> code]

ChildEvents(child) ==
    IF child.kind = "exit" THEN <<ChildEvent("close", TRUE, child.status)>>
    ELSE IF child.kind = "signal" THEN <<ChildEvent("close", FALSE, 0)>>
    ELSE <<ChildEvent("error", FALSE, 0)>>
         \o (IF child.closes THEN <<ChildEvent("close", TRUE, child.status)>> ELSE <<>>)

\* `code || 0` of the 'close' handler: null and 0 give 0
CodeOrZero(event) ==
    IF event.hasCode /\ event.code # 0 THEN event.code ELSE 0

\* a settled promise: resolved with a result carrying code, or rejected
Resolved(code) == [settled |-> "resolved", code |-> code]

Rejected == [settled |-> "rejected", code |-> SpawnError]

\* runCommand in which a non-zero exit rejects the promise, as
\* child_process.execFile does
runCommandRejectsNonZero(events) ==
    IF events = <<>> THEN [settled |-> "pending", code |-> 0]
    ELSE IF events[1].name = "close" /\ CodeOrZero(events[1]) = 0 THEN Resolved(0)
    ELSE Rejected

\* runCommand: the promise is settled by the first event of the child,
\* resolve({stdout, stderr, code: code || 0}) on 'close' and reject(error)
\* on 'error'; what a later event does to a settled promise is nothing
runCommand(events) ==
    IF events = <<>> THEN [settled |-> "pending", code |-> 0]
    ELSE IF events[1].name = "close" THEN Resolved(CodeOrZero(events[1]))
    ELSE Rejected


Registered(w, path) ==
    \E t \in w.worktrees : t.path = path

CheckedOut(w, b) ==
    \E t \in w.worktrees : t.branch = b

\* git worktree remove --force <path>: removes a registered worktree and its
\* directory; exits non-zero on a path that is no worktree, or when the
\* removal itself fails (removable: whether git manages to delete the files)
GitWorktreeRemove(w, path, removable) ==
    IF Registered(w, path) /\ removable
    THEN [w |-> [w EXCEPT !.worktrees = {t \in @ : t.path # path},
                          !.dirs = @ \ {path}],
          code |-> 0]
    ELSE [w |-> w, code |-> 128]

\* git worktree add -b <b> <path> HEAD: refuses an existing branch name, an
\* existing directory and a path still registered; otherwise creates all three
GitWorktreeAdd(w, b, path) ==
    IF b \in w.branches \/ path \in w.dirs \/ Registered(w, path)
    THEN [w |-> w, code |-> 128]
    ELSE [w |-> [w EXCEPT !.worktrees = @ \cup {[path |-> path, branch |-> b]},
                          !.dirs = @ \cup {path},
                          !.branches = @ \cup {b}],
          code |-> 0]

\* git show-ref --verify --quiet refs/heads/<b>
GitShowRef(w, b) ==
    IF b \in w.branches THEN 0 ELSE 1

\* git branch -D <b>: refuses a branch some worktree has checked out, whether
\* or not that worktree's directory still exists
GitBranchDelete(w, b) ==
    IF b \in w.branches /\ ~CheckedOut(w, b)
    THEN [w |-> [w EXCEPT !.branches = @ \ {b}], code |-> 0]
    ELSE [w |-> w, code |-> 1]

\* git worktree prune: forgets the worktrees whose directory is gone
GitWorktreePrune(w) ==
    [w EXCEPT !.worktrees = {t \in @ : t.path \in w.dirs}]

\* fs.rmSync(path, {recursive: true, force: true}); throws when it cannot
FsRm(w, path, ok) ==
    IF ok THEN [w |-> [w EXCEPT !.dirs = @ \ {path}], threw |-> FALSE]
    ELSE [w |-> w, threw |-> TRUE]

(***************************************************************************)
(* tmux, as the orchestrators drive it                                     *)
(***************************************************************************)

WindowsOf(w, session) ==
    {x \in w.windows : x.session = session}

\* tmux has-session -t <session>
TmuxHasSession(w, session) ==
    IF WindowsOf(w, session) # {} THEN 0 ELSE 1

\* tmux list-sessions -F '#{session_name}': the live sessions, by name
RECURSIVE LiveSessions(_, _)
LiveSessions(w, i) ==
    IF i > Len(SessionOrder) THEN <<>>
    ELSE (IF WindowsOf(w, SessionOrder[i]) # {} THEN <<SessionOrder[i]>> ELSE <<>>)
         \o LiveSessions(w, i + 1)

\* the windows of a session in index order
RECURSIVE WindowsFrom(_, _, _)
WindowsFrom(ws, i, top) ==
    IF i > top THEN <<>>
    ELSE (IF \E x \in ws : x.idx = i THEN <<CHOOSE x \in ws : x.idx = i>> ELSE <<>>)
         \o WindowsFrom(ws, i + 1, top)

Max(S) == CHOOSE m \in S : \A n \in S : n <= m

WindowList(w, session) ==
    IF WindowsOf(w, session) = {} THEN <<>>
    ELSE WindowsFrom(WindowsOf(w, session), 0, Max({x.idx : x \in WindowsOf(w, session)}))

\* stdout of tmux list-windows -t <session> -F '#{window_name}': one name a line
RECURSIVE NameLines(_)
NameLines(ws) ==
    IF ws = <<>> THEN <<>> ELSE ws[1].name \o <<NL>> \o NameLines(Tail(ws))

TmuxListWindowNames(w, session) ==
    NameLines(WindowList(w, session))

\* the window `tmux kill-window -t <session>:<name>` acts on: the window of
\* that exact name, else the window whose name starts with it; none when
\* the choice is ambiguous or nothing matches (the names here are no indexes)
TmuxTarget(w, session, name) ==
    LET exact == {x \in WindowsOf(w, session) : x.name = name}
        start == {x \in WindowsOf(w, session) : IsPrefix(name, x.name)}
    IN  IF Cardinality(exact) = 1 THEN exact
        ELSE IF exact = {} /\ Cardinality(start) = 1 THEN start
        ELSE {}

\* tmux kill-window -t <session>:<name>
TmuxKillWindow(w, session, name) ==
    LET hit == TmuxTarget(w, session, name)
    IN  IF hit = {} THEN [w |-> w, code |-> 1]
        ELSE [w |-> [w EXCEPT !.windows = @ \ hit], code |-> 0]

Digits == <<"0", "1", "2", "3", "4", "5", "6", "7", "8", "9">>

\* a window index as tmux prints it, in decimal
RECURSIVE IntToStr(_)
IntToStr(n) ==
    IF n < 10 THEN <<Digits[n + 1]>>
    ELSE IntToStr(n \div 10) \o <<Digits[(n % 10) + 1]>>

DigitValue(c) ==
    (CHOOSE d \in DOMAIN Digits : Digits[d] = c) - 1

\* Number.parseInt(text, 10) of a line of decimal digits
RECURSIVE ParseInt(_)
ParseInt(text) ==
    IF Len(text) = 1 THEN DigitValue(text[1])
    ELSE 10 * ParseInt(SubSeq(text, 1, Len(text) - 1)) + DigitValue(text[Len(text)])

RECURSIVE IndexLines(_)
IndexLines(ws) ==
    IF ws = <<>> THEN <<>> ELSE IntToStr(ws[1].idx) \o <<NL>> \o IndexLines(Tail(ws))

\* tmux list-windows -t <session> -F '#{window_index}': one index a line,
\* exit status 1 and no output for a session that does not exist
TmuxListWindowIndexes(w, session) ==
    IF WindowsOf(w, session) = {} THEN [stdout |-> <<>>, code |-> 1]
    ELSE [stdout |-> IndexLines(WindowList(w, session)), code |-> 0]

\* getNextWindowNumber with the first unused index in place of max + 1
getNextWindowNumberFillsGaps(w, session) ==
    LET result == TmuxListWindowIndexes(w, session)
        lines  == SplitOn(Trim(result.stdout), <<NL>>)
        used   == {ParseInt(lines[i]) : i \in DOMAIN lines}
    IN  IF result.code = 0 /\ Trim(result.stdout) # <<>>
        THEN CHOOSE n \in 1..(Max(used) + 1) : n \notin used /\ \A m \in 1..(n - 1) : m \in used
        ELSE 1

\* getNextWindowNumber: the highest index listed plus one, 1 when the
\* listing fails or is empty
getNextWindowNumber(w, session) ==
    LET result == TmuxListWindowIndexes(w, session)
        lines  == SplitOn(Trim(result.stdout), <<NL>>)
        windowNumbers == {ParseInt(lines[i]) : i \in DOMAIN lines}
    IN  IF result.code = 0 /\ Trim(result.stdout) # <<>>
        THEN Max(windowNumbers) + 1
        ELSE 1

\* tmux new-window -t <session>:<idx> -n <name>: fails on an index in use
TmuxNewWindow(w, session, idx, name) ==
    IF WindowsOf(w, session) = {} \/ \E x \in WindowsOf(w, session) : x.idx = idx
    THEN [w |-> w, code |-> 1]
    ELSE [w |-> [w EXCEPT !.windows = @ \cup {[session |-> session, idx |-> idx, name |-> name]}],
          code |-> 0]

\* tmux new-session -d -s <session> -n <name>: fails on a session that exists
TmuxNewSession(w, session, name) ==
    IF WindowsOf(w, session) # {}
    THEN [w |-> w, code |-> 1]
    ELSE [w |-> [w EXCEPT !.windows = @ \cup {[session |-> session, idx |-> BaseIndex, name |-> name]}],
          code |-> 0]

\* `${session}:${window}`, the target string handed to tmux
Target(session, window) ==
    session \o <<":">> \o window

(***************************************************************************)
(* Cleanup: src/src/cleanup.ts                                             *)
(***************************************************************************)

\* An orchestration in progress is [w, tr]: the external state and the events
\* so far
Add(st, events) ==
    [st EXCEPT !.tr = @ \o events]

\* findWindowInAllSessions: the first live session whose window listing
\* includes the name, NoSession when there is none or tmux lists no session
RECURSIVE FirstIncluding(_, _, _)
FirstIncluding(w, sessions, windowName) ==
    IF sessions = <<>> THEN NoSession
    ELSE IF IsSubstr(windowName, TmuxListWindowNames(w, sessions[1])) THEN sessions[1]
    ELSE FirstIncluding(w, Tail(sessions), windowName)

findWindowInAllSessions(w, windowName) ==
    FirstIncluding(w, LiveSessions(w, 1), windowName)

\* killTmuxWindow; a cleanup or reset in progress carries threw as well: an
\* exception has left a step. Without tmux on the path list-sessions is
\* rejected and findWindowInAllSessions returns null from its catch block
killTmuxWindow(st, windowName, env) ==
    LET noTmux  == env.missing = "tmux"
        listed  == Cmd("tmux", "list-sessions", <<>>,
                       IF noTmux THEN SpawnError
                       ELSE IF LiveSessions(st.w, 1) = <<>> THEN 1 ELSE 0)
        session == IF noTmux THEN NoSession ELSE findWindowInAllSessions(st.w, windowName)
        kill    == TmuxKillWindow(st.w, session, windowName)
    IN  IF session # NoSession
        THEN [st EXCEPT !.w = kill.w,
                        !.tr = @ \o <<listed,
                                      Log("log", "killing-window", Target(session, windowName)),
                                      Cmd("tmux", "kill-window", Target(session, windowName),
                                          kill.code)>>]
        ELSE Add(st, <<listed, Log("info", "window-not-found", windowName)>>)

\* removeWorktree with no fallback: a removal git refuses, or that cannot be
\* run, is reported as an error at once
removeWorktreeGitOnly(st, branchName, env) ==
    LET worktreeDir == WorktreePath(Config, branchName)
        remove  == GitWorktreeRemove(st.w, worktreeDir, env.removable)
        code    == IF env.missing = "git" THEN SpawnError ELSE remove.code
        tried   == <<Log("log", "removing-worktree", worktreeDir),
                     Log("log", "fixing-permissions", worktreeDir),
                     Cmd("chmod", "-R", worktreeDir, IF env.chmodOk THEN 0 ELSE 1)>>
                   \o (IF env.chmodOk THEN <<>>
                       ELSE <<Log("warn", "chmod-failed", worktreeDir)>>)
                   \o <<Cmd("git", "worktree-remove", worktreeDir, code)>>
    IN  IF worktreeDir \notin st.w.dirs
        THEN Add(st, <<Log("info", "worktree-not-found", worktreeDir)>>)
        ELSE IF code = 0
        THEN [st EXCEPT !.w = remove.w, !.tr = @ \o tried]
        ELSE [st EXCEPT !.tr = @ \o tried
                                 \o <<Log("error", "manual-remove-failed", worktreeDir)>>]

\* removeWorktree; env.chmodOk, env.removable and env.rmOk say whether chmod,
\* git's removal and fs.rmSync manage to do their work on this machine.
\* Without git on the path the removal is rejected and the catch block runs
removeWorktree(st, branchName, env) ==
    LET worktreeDir == WorktreePath(Config, branchName)
        noGit   == env.missing = "git"
        chmod   == <<Log("log", "removing-worktree", worktreeDir),
                     Log("log", "fixing-permissions", worktreeDir),
                     Cmd("chmod", "-R", worktreeDir, IF env.chmodOk THEN 0 ELSE 1)>>
                   \o (IF env.chmodOk THEN <<>>
                       ELSE <<Log("warn", "chmod-failed", worktreeDir)>>)
        remove  == GitWorktreeRemove(st.w, worktreeDir, env.removable)
        removed == <<Cmd("git", "worktree-remove", worktreeDir,
                         IF noGit THEN SpawnError ELSE remove.code)>>
        rm      == FsRm(remove.w, worktreeDir, env.rmOk)
        manual  == <<Log("warn", "git-remove-failed", worktreeDir),
                     Cmd("fs", "rm", worktreeDir, IF rm.threw THEN 1 ELSE 0)>>
        \* the catch block: warn, then fs.rmSync once more
        retry   == <<Log("warn", "remove-failed", worktreeDir),
                     Cmd("fs", "rm", worktreeDir, 1),
                     Log("error", "manual-remove-failed", worktreeDir)>>
        \* the catch block after a rejected git command
        caught  == <<Log("warn", "remove-failed", worktreeDir),
                     Cmd("fs", "rm", worktreeDir, IF rm.threw THEN 1 ELSE 0)>>
                   \o (IF rm.threw THEN <<Log("error", "manual-remove-failed", worktreeDir)>>
                       ELSE <<>>)
    IN  IF worktreeDir \notin st.w.dirs
        THEN Add(st, <<Log("info", "worktree-not-found", worktreeDir)>>)
        ELSE IF noGit
        THEN [st EXCEPT !.w = rm.w, !.tr = @ \o chmod \o removed \o caught]
        ELSE IF remove.code = 0
        THEN [st EXCEPT !.w = remove.w, !.tr = @ \o chmod \o removed]
        ELSE IF ~rm.threw
        THEN [st EXCEPT !.w = rm.w, !.tr = @ \o chmod \o removed \o manual]
        ELSE [st EXCEPT !.w = rm.w, !.tr = @ \o chmod \o removed \o manual \o retry]

\* deleteBranch; a rejected show-ref is warned about in the catch block
deleteBranch(st, branchName, env) ==
    LET del    == GitBranchDelete(st.w, branchName)
        exists == GitShowRef(st.w, branchName)
    IN  IF env.missing = "git"
        THEN Add(st, <<Cmd("git", "show-ref", branchName, SpawnError),
                       Log("warn", "branch-delete-failed", branchName)>>)
        ELSE IF exists = 0
        THEN [st EXCEPT !.w = del.w,
                        !.tr = @ \o <<Cmd("git", "show-ref", branchName, exists),
                                      Log("log", "deleting-branch", branchName),
                                      Cmd("git", "branch-D", branchName, del.code)>>
                                 \o (IF del.code # 0
                                     THEN <<Log("warn", "branch-delete-failed", branchName)>>
                                     ELSE <<>>)]
        ELSE Add(st, <<Cmd("git", "show-ref", branchName, exists),
                       Log("info", "branch-not-found", branchName)>>)

\* git worktree prune as pruneWorktrees runs it; env.pruneOk: it exits 0
PruneCode(env) ==
    IF env.missing = "git" THEN SpawnError ELSE IF env.pruneOk THEN 0 ELSE 1

\* pruneWorktrees with no try around the command
pruneWorktreesUncaught(st, env) ==
    [st EXCEPT !.w = IF PruneCode(env) = 0 THEN GitWorktreePrune(st.w) ELSE st.w,
               !.tr = @ \o <<Log("log", "pruning", <<>>),
                             Cmd("git", "worktree-prune", <<>>, PruneCode(env))>>,
               !.threw = PruneCode(env) = SpawnError]

\* pruneWorktrees: the exit code of the command is not read, a rejected
\* command is warned about in the catch block
pruneWorktrees(st, env) ==
    [st EXCEPT !.w = IF PruneCode(env) = 0 THEN GitWorktreePrune(st.w) ELSE st.w,
               !.tr = @ \o <<Log("log", "pruning", <<>>),
                             Cmd("git", "worktree-prune", <<>>, PruneCode(env))>>
                        \o (IF PruneCode(env) = SpawnError
                            THEN <<Log("warn", "prune-failed", <<>>)>>
                            ELSE <<>>)]

\* showRemainingResources: prints, changes nothing; both listings sit in a
\* try of their own
showRemainingResources(st) ==
    Add(st, <<Log("info", "remaining-resources", <<>>)>>)

\* the rest of a try block, skipped once an exception is on its way
Then(st, Step(_)) ==
    IF st.threw THEN st ELSE Step(st)

\* the catch block of cleanup
CleanupFailed(st) ==
    [w |-> st.w, tr |-> st.tr \o <<Log("error", "cleanup-failed", <<>>), Exit(1)>>,
     config |-> Config]

\* cleanup(branchName): the catch block with process.exit(1) is entered when
\* a step lets an exception out, else the process ends with status 0. No
\* step of Cleanup assigns to this.config
cleanup(w, branchName, env) ==
    LET st0 == [w |-> w, tr |-> <<Log("log", "cleaning-up", branchName)>>, threw |-> FALSE]
        st1 == killTmuxWindow(st0, branchName, env)
        st2 == Then(st1, LAMBDA st : removeWorktree(st, branchName, env))
        st3 == Then(st2, LAMBDA st : deleteBranch(st, branchName, env))
        st4 == Then(st3, LAMBDA st : pruneWorktrees(st, env))
        st5 == Then(st4, LAMBDA st : showRemainingResources(
                                         Add(st, <<Log("log", "cleanup-completed", <<>>)>>)))
    IN  IF st5.threw THEN CleanupFailed(st5)
        ELSE [w |-> st5.w, tr |-> st5.tr \o <<Exit(0)>>, config |-> Config]

(***************************************************************************)
(* Launcher: src/src/launcher.ts                                           *)
(***************************************************************************)

\* A launch in progress is [w, tr, threw, config]: threw says an exception is
\* on its way to the catch block of launch, config is this.config of the
\* Launcher

\* getWorktreeInfo naming the directory after the repository alone
getWorktreeInfoRepoOnly(config, branchName) ==
    [branchName  |-> branchName,
     worktreeDir |-> PathJoin(config.worktreeDir, config.repoName),
     tmuxWindow  |-> branchName]

\* getWorktreeInfo naming the directory after the branch alone
getWorktreeInfoBranchOnly(config, branchName) ==
    [branchName  |-> branchName,
     worktreeDir |-> PathJoin(config.worktreeDir, branchName),
     tmuxWindow  |-> branchName]

\* getWorktreeInfo: the worktree directory and the window name of a worker
getWorktreeInfo(config, branchName) ==
    [branchName  |-> branchName,
     worktreeDir |-> PathJoin(config.worktreeDir, config.repoName \o <<"_">> \o branchName),
     tmuxWindow  |-> branchName]

\* createWorktree; the copies of .claude and of the plan file touch nothing
\* outside the new directory, and throw when they fail (env.copyOk: both
\* work). Without git on the path both git commands are
\* rejected: the first lands in the catch block with fs.rmSync (env.rmOk:
\* it manages), the second leaves the function as an exception
createWorktree(st, branchName, env) ==
    LET worktreeDir == getWorktreeInfo(st.config, branchName).worktreeDir
        exists  == worktreeDir \in st.w.dirs
        noGit   == env.missing = "git"
        remove  == GitWorktreeRemove(st.w, worktreeDir, env.removable)
        rm      == FsRm(st.w, worktreeDir, env.rmOk)
        w1      == IF ~exists THEN st.w ELSE IF noGit THEN rm.w ELSE remove.w
        tr1     == st.tr \o <<Log("log", "creating-worktree", branchName)>>
                   \o (IF exists
                       THEN <<Log("warn", "removing-existing-worktree", worktreeDir),
                              Cmd("git", "worktree-remove", worktreeDir,
                                  IF noGit THEN SpawnError ELSE remove.code)>>
                            \o (IF noGit
                                THEN <<Cmd("fs", "rm", worktreeDir, IF rm.threw THEN 1 ELSE 0)>>
                                ELSE <<>>)
                       ELSE <<>>)
        add     == GitWorktreeAdd(w1, branchName, worktreeDir)
        tr2     == tr1 \o <<Cmd("git", "worktree-add", worktreeDir,
                                IF noGit THEN SpawnError ELSE add.code)>>
    IN  IF exists /\ noGit /\ rm.threw
        THEN [st EXCEPT !.w = w1, !.tr = tr1, !.threw = TRUE]
        ELSE IF noGit
        THEN [st EXCEPT !.w = w1, !.tr = tr2, !.threw = TRUE]
        ELSE IF add.code # 0
        THEN [st EXCEPT !.w = add.w, !.tr = tr2, !.threw = TRUE]
        ELSE IF ~env.copyOk
        THEN [st EXCEPT !.w = add.w,
                        !.tr = tr2 \o <<Cmd("fs", "copy-files", worktreeDir, 1)>>,
                        !.threw = TRUE]
        ELSE [st EXCEPT !.w = add.w,
                        !.tr = tr2 \o <<Cmd("fs", "copy-files", worktreeDir, 0),
                                        Log("log", "worktree-created", worktreeDir)>>,
                        !.threw = FALSE]

\* setupWorktree with no throw after the rollback
setupWorktreeNeverThrows(st, branchName, env) ==
    LET worktreeDir == getWorktreeInfo(st.config, branchName).worktreeDir
        tr1     == st.tr \o <<Log("log", "setting-up", worktreeDir),
                              Cmd("make", "setup", worktreeDir, IF env.setupOk THEN 0 ELSE 2)>>
        remove  == GitWorktreeRemove(st.w, worktreeDir, env.removable)
        del     == GitBranchDelete(remove.w, branchName)
    IN  IF env.setupOk
        THEN [st EXCEPT !.tr = tr1, !.threw = FALSE]
        ELSE [st EXCEPT !.w = del.w,
                        !.tr = tr1 \o <<Log("error", "setup-failed", worktreeDir),
                                        Cmd("git", "worktree-remove", worktreeDir, remove.code),
                                        Cmd("git", "branch-D", branchName, del.code)>>,
                        !.threw = FALSE]

\* setupWorktree; env.setupOk: `make setup` exits 0
setupWorktree(st, branchName, env) ==
    LET worktreeDir == getWorktreeInfo(st.config, branchName).worktreeDir
        tr1     == st.tr \o <<Log("log", "setting-up", worktreeDir),
                              Cmd("make", "setup", worktreeDir, IF env.setupOk THEN 0 ELSE 2)>>
        remove  == GitWorktreeRemove(st.w, worktreeDir, env.removable)
        del     == GitBranchDelete(remove.w, branchName)
    IN  IF env.setupOk
        THEN [st EXCEPT !.tr = tr1, !.threw = FALSE]
        ELSE [st EXCEPT !.w = del.w,
                        !.tr = tr1 \o <<Log("error", "setup-failed", worktreeDir),
                                        Cmd("git", "worktree-remove", worktreeDir, remove.code),
                                        Cmd("git", "branch-D", branchName, del.code)>>,
                        !.threw = TRUE]

\* createPromptFile that undoes the worktree and the branch when the copy
\* throws, as setupWorktree does after a failed setup
createPromptFileRollsBack(st, branchName, env) ==
    LET worktreeDir == getWorktreeInfo(st.config, branchName).worktreeDir
        remove  == GitWorktreeRemove(st.w, worktreeDir, env.removable)
        del     == GitBranchDelete(remove.w, branchName)
    IN  IF env.promptOk
        THEN [st EXCEPT !.tr = @ \o <<Cmd("fs", "copy-prompt", worktreeDir, 0)>>,
                        !.threw = FALSE]
        ELSE [st EXCEPT !.w = del.w,
                        !.tr = @ \o <<Cmd("fs", "copy-prompt", worktreeDir, 1),
                                      Cmd("git", "worktree-remove", worktreeDir, remove.code),
                                      Cmd("git", "branch-D", branchName, del.code)>>,
                        !.threw = TRUE]

\* createPromptFile: fs.copyFileSync of the plan (or of the integration
\* tester persona) to prompt.md inside the worktree; env.promptOk: the copy
\* does not throw
createPromptFile(st, branchName, env) ==
    [st EXCEPT !.tr = @ \o <<Cmd("fs", "copy-prompt",
                                 getWorktreeInfo(st.config, branchName).worktreeDir,
                                 IF env.promptOk THEN 0 ELSE 1)>>,
               !.threw = ~env.promptOk]

\* getCurrentTmuxSession: tmux display-message -p '#{session_name}' prints
\* the session the caller is attached to (env.cur) and exits 0, or prints
\* nothing and exits 1 outside tmux; the event keeps what was printed
getCurrentTmuxSession(env) ==
    Cmd("tmux", "display-message", env.cur,
        IF env.missing = "tmux" THEN SpawnError ELSE IF env.cur # NoSession THEN 0 ELSE 1)

\* the session createTmuxWindow targets; cur is what getCurrentTmuxSession
\* returned (NoSession for null)
TargetSession(config, cur) ==
    IF cur # NoSession THEN cur ELSE config.tmuxSession

\* createTmuxWindow; the exit codes of new-window and new-session are not
\* read, and on both branches this.config.tmuxSession is assigned the target
\* session. Without tmux on the path getCurrentTmuxSession yields null and
\* the rejected has-session leaves the function as an exception
createTmuxWindow(st, branchName, env) ==
    LET targetSession == TargetSession(st.config, env.cur)
        sessionExists == TmuxHasSession(st.w, targetSession)
        nextWindow    == getNextWindowNumber(st.w, targetSession)
        newWindow     == TmuxNewWindow(st.w, targetSession, nextWindow, branchName)
        newSession    == TmuxNewSession(st.w, targetSession, branchName)
    IN  IF env.missing = "tmux"
        THEN [st EXCEPT !.tr = @ \o <<getCurrentTmuxSession(env),
                                      Cmd("tmux", "has-session", targetSession, SpawnError)>>,
                        !.threw = TRUE]
        ELSE IF sessionExists = 0
        THEN [st EXCEPT !.w = newWindow.w,
                        !.config.tmuxSession = targetSession,
                        !.tr = @ \o <<getCurrentTmuxSession(env),
                                      Cmd("tmux", "has-session", targetSession, sessionExists),
                                      Log("log", "adding-window", targetSession),
                                      Cmd("tmux", "new-window",
                                          Target(targetSession, IntToStr(nextWindow)),
                                          newWindow.code)>>]
        ELSE [st EXCEPT !.w = newSession.w,
                        !.config.tmuxSession = targetSession,
                        !.tr = @ \o <<getCurrentTmuxSession(env),
                                      Cmd("tmux", "has-session", targetSession, sessionExists),
                                      Log("log", "creating-session", targetSession),
                                      Cmd("tmux", "new-session", Target(targetSession, branchName),
                                          newSession.code)>>]

\* tmux send-keys -t <session>:<window> <keys>
SendKeys(w, session, window, keys) ==
    Cmd("tmux", keys, Target(session, window),
        IF TmuxTarget(w, session, window) # {} THEN 0 ELSE 1)

\* await new Promise((resolve) => setTimeout(resolve, ms)); the code field
\* holds the milliseconds
Wait(ms) == Ev("wait", "setTimeout", "", <<>>, ms, <<>>)

\* launchClaude with the mode toggle sent before the last confirmation
launchClaudeTogglesEarly(st, branchName, env) ==
    LET info    == getWorktreeInfo(st.config, branchName)
        session == st.config.tmuxSession
    IN  [st EXCEPT !.tr = @ \o <<Log("log", "starting-claude", info.worktreeDir),
                                 SendKeys(st.w, session, info.tmuxWindow, "send-keys claude C-m"),
                                 Wait(2000),
                                 SendKeys(st.w, session, info.tmuxWindow, "send-keys C-m"),
                                 Wait(1000),
                                 SendKeys(st.w, session, info.tmuxWindow, "send-keys S-Tab"),
                                 Wait(1000),
                                 SendKeys(st.w, session, info.tmuxWindow, "send-keys C-m")>>]

\* launchClaude with the configured session as its target, whatever
\* session createTmuxWindow used
launchClaudeConfiguredSession(st, branchName, env) ==
    LET info    == getWorktreeInfo(st.config, branchName)
        session == Config.tmuxSession
    IN  [st EXCEPT !.tr = @ \o <<Log("log", "starting-claude", info.worktreeDir),
                                 SendKeys(st.w, session, info.tmuxWindow, "send-keys claude C-m"),
                                 Wait(2000),
                                 SendKeys(st.w, session, info.tmuxWindow, "send-keys C-m"),
                                 Wait(1000),
                                 SendKeys(st.w, session, info.tmuxWindow, "send-keys C-m"),
                                 Wait(1000),
                                 SendKeys(st.w, session, info.tmuxWindow, "send-keys S-Tab")>>]

\* launchClaude: the command line and the scripted handshake, each send
\* awaited before the next, to the window
\* `${this.config.tmuxSession}:${info.tmuxWindow}`
launchClaude(st, branchName, env) ==
    LET info    == getWorktreeInfo(st.config, branchName)
        session == st.config.tmuxSession
    IN  [st EXCEPT !.tr = @ \o <<Log("log", "starting-claude", info.worktreeDir),
                                 SendKeys(st.w, session, info.tmuxWindow, "send-keys claude C-m"),
                                 Wait(2000),
                                 SendKeys(st.w, session, info.tmuxWindow, "send-keys C-m"),
                                 Wait(1000),
                                 SendKeys(st.w, session, info.tmuxWindow, "send-keys C-m"),
                                 Wait(1000),
                                 SendKeys(st.w, session, info.tmuxWindow, "send-keys S-Tab")>>]

\* the catch block of launch
LaunchFailed(st) ==
    [w |-> st.w, tr |-> st.tr \o <<Log("error", "launch-failed", <<>>), Exit(1)>>,
     config |-> st.config]

\* the end of the try block of launch: the success message with the session
\* to attach to, and the process ends with status 0
LaunchSucceeded(st, branchName) ==
    [w |-> st.w,
     tr |-> st.tr \o <<Log("log", "worker-launched", branchName),
                       Log("log", "session", st.config.tmuxSession), Exit(0)>>,
     config |-> st.config]

\* the launch as it starts: this.config is what the constructor loaded
LaunchStart(w, branchName) ==
    [w |-> w, tr |-> <<Log("log", "starting-worker", branchName)>>, threw |-> FALSE,
     config |-> Config]

\* the tools checkPrerequisites looks for, in its order
Tools == <<"git", "tmux", "claude">>

\* checkPrerequisites: `which <tool>` for each tool. runCommand resolves
\* whatever `which` exits with, so the catch block with its "not installed"
\* error is entered only when `which` itself cannot be started, and a
\* missing tool lets the launch through
checkPrerequisites(st, env) ==
    [st EXCEPT !.tr = @ \o [i \in 1..Len(Tools) |->
                                Cmd("which", Tools[i], <<>>,
                                    IF env.missing = Tools[i] THEN 1 ELSE 0)],
               !.threw = FALSE]

\* launch with the plan file looked for only once the worktree is there
launchChecksPlanLate(w, branchName, env) ==
    LET st0 == checkPrerequisites(LaunchStart(w, branchName), env)
        st1 == createWorktree(st0, branchName, env)
        chk == Add(st1, <<Cmd("fs", "exists-plan", <<>>, IF env.planExists THEN 0 ELSE 1)>>)
        st2 == setupWorktree(chk, branchName, env)
        st3 == createPromptFile(st2, branchName, env)
        st4 == createTmuxWindow(st3, branchName, env)
        st5 == launchClaude(st4, branchName, env)
    IN  IF st1.threw THEN LaunchFailed(st1)
        ELSE IF ~env.planExists THEN LaunchFailed(chk)
        ELSE IF st2.threw THEN LaunchFailed(st2)
        ELSE IF st3.threw THEN LaunchFailed(st3)
        ELSE IF st4.threw THEN LaunchFailed(st4)
        ELSE LaunchSucceeded(st5, branchName)

\* launch(branchName, planFile, options); env.planExists:
\* fs.existsSync(planFile). The options (env.humanlayer among them) are
\* never read
launch(w, branchName, env) ==
    LET st0 == checkPrerequisites(LaunchStart(w, branchName), env)
        chk == Add(st0, <<Cmd("fs", "exists-plan", <<>>, IF env.planExists THEN 0 ELSE 1)>>)
        st1 == createWorktree(chk, branchName, env)
        st2 == setupWorktree(st1, branchName, env)
        st3 == createPromptFile(st2, branchName, env)
        st4 == createTmuxWindow(st3, branchName, env)
        st5 == launchClaude(st4, branchName, env)
    IN  IF st0.threw THEN LaunchFailed(st0)
        ELSE IF ~env.planExists THEN LaunchFailed(chk)
        ELSE IF st1.threw THEN LaunchFailed(st1)
        ELSE IF st2.threw THEN LaunchFailed(st2)
        ELSE IF st3.threw THEN LaunchFailed(st3)
        ELSE IF st4.threw THEN LaunchFailed(st4)
        ELSE LaunchSucceeded(st5, branchName)

(***************************************************************************)
(* Reset: src/src/cleanup.ts                                               *)
(***************************************************************************)

S_worktreeSp == <<"w", "o", "r", "k", "t", "r", "e", "e", " ">>

S_headSp == <<"H", "E", "A", "D", " ">>

S_branchRef == <<"b", "r", "a", "n", "c", "h", " ", "r", "e", "f", "s", "/", "h", "e", "a", "d", "s", "/">>

S_detached == <<"d", "e", "t", "a", "c", "h", "e", "d">>

S_integration == <<"i", "n", "t", "e", "g", "r", "a", "t", "i", "o", "n", "-">>

S_agentcontrolplane == <<"a", "g", "e", "n", "t", "c", "o", "n", "t", "r", "o", "l", "p", "l", "a", "n", "e", "_">>

S_agentDash == <<"a", "g", "e", "n", "t", "-">>

\* a worktree with a detached HEAD has no branch
Detached == <<>>

\* one record of `git worktree list --porcelain`, its lines joined by newlines
Block(path, branch) ==
    S_worktreeSp \o path \o <<NL>> \o S_headSp \o <<"0">> \o <<NL>>
    \o (IF branch = Detached THEN S_detached ELSE S_branchRef \o branch)

\* the order in which git lists the linked worktrees
PathOrder == <<WorktreePath(Config, N1), WorktreePath(Config, N2)>>

RECURSIVE LinkedBlocks(_, _)
LinkedBlocks(w, i) ==
    IF i > Len(PathOrder) THEN <<>>
    ELSE (IF Registered(w, PathOrder[i])
          THEN Block(PathOrder[i], (CHOOSE t \in w.worktrees : t.path = PathOrder[i]).branch)
               \o <<NL, NL>>
          ELSE <<>>)
         \o LinkedBlocks(w, i + 1)

\* stdout of git worktree list --porcelain: the main checkout, then the
\* linked worktrees, each record followed by an empty line
GitWorktreeListPorcelain(w) ==
    Block(Cwd, S_main) \o <<NL, NL>> \o LinkedBlocks(w, 1)

\* the filter of listWorktreesToDelete, on the text of one record
IsAgentWorktree(config, block) ==
    \/ IsSubstr(config.repoName \o <<"_">>, block)
    \/ IsSubstr(S_integration, block)
    \/ IsSubstr(S_agentcontrolplane, block)

\* worktree.split('\n')[0].replace('worktree ', '')
BlockPath(block) ==
    RemoveFirst(SplitOn(block, <<NL>>)[1], S_worktreeSp)

\* worktree.match(/branch refs\/heads\/(.+)/), else path.basename(worktreePath)
BlockBranch(block) ==
    LET i     == IndexOf(S_branchRef, block)
        found == IF i = 0 THEN <<>> ELSE RestOfLine(block, i + Len(S_branchRef))
    IN  IF found # <<>> THEN found ELSE Basename(BlockPath(block))

\* listWorktreesToDelete: <<path, branch>> of every record that passes the
\* filter and is not the current directory
listWorktreesToDelete(w) ==
    LET blocks == SplitOn(Trim(GitWorktreeListPorcelain(w)), <<NL, NL>>)
        agent  == SelectSeq(blocks, LAMBDA b : IsAgentWorktree(Config, b))
        keep   == SelectSeq(agent, LAMBDA b : BlockPath(b) # <<>> /\ BlockPath(b) # cfgIn.cwd)
    IN  [i \in 1..Len(keep) |-> <<BlockPath(keep[i]), BlockBranch(keep[i])>>]

HexChars == {"a", "b", "c", "d", "e", "f", "0", "1", "2", "3", "4", "5", "6", "7", "8", "9", "-"}

\* the shortest name /^[a-f0-9-]{8,}$/ accepts
MinHexLen == 8

\* the filter of listTmuxWindowsToKill, on one window name
IsAgentWindow(window) ==
    \/ IsSubstr(S_integration, window)
    \/ IsSubstr(S_agentDash, window)
    \/ (Len(window) >= MinHexLen /\ \A i \in 1..Len(window) : window[i] \in HexChars)

RECURSIVE AgentWindowsIn(_, _)
AgentWindowsIn(w, sessions) ==
    IF sessions = <<>> THEN <<>>
    ELSE LET session == sessions[1]
             agent   == SelectSeq(Lines(TmuxListWindowNames(w, session)), IsAgentWindow)
         IN  [i \in 1..Len(agent) |-> <<session, agent[i]>>]
             \o AgentWindowsIn(w, Tail(sessions))

\* listTmuxWindowsToKill: <<session, window>> of every agent window
listTmuxWindowsToKill(w) ==
    AgentWindowsIn(w, LiveSessions(w, 1))

\* answer.toLowerCase() of the answers the model types
Lower(answer) ==
    CASE answer = "Y" -> "y"
      [] answer = "Yes" -> "yes"
      [] OTHER -> answer

\* promptForConfirmation: what the typed answer resolves to
promptForConfirmation(answer) ==
    Lower(answer) = "y" \/ Lower(answer) = "yes"

\* the loop of cleanAllWorktrees over the listed worktrees
RECURSIVE RemoveListed(_, _, _)
RemoveListed(st, list, env) ==
    IF list = <<>> THEN st
    ELSE RemoveListed(deleteBranch(removeWorktree(st, list[1][2], env), list[1][2], env),
                      Tail(list), env)

\* cleanAllWorktrees without the early return on a declined prompt
cleanAllWorktreesUnasked(st, env) ==
    LET worktreesToDelete == listWorktreesToDelete(st.w)
        confirmed == promptForConfirmation(env.worktreesAnswer)
        asked     == Add(st, <<Prompt("worktrees", confirmed, worktreesToDelete)>>)
    IN  IF Len(worktreesToDelete) = 0
        THEN Add(st, <<Log("info", "no-worktrees-found", <<>>)>>)
        ELSE pruneWorktrees(RemoveListed(Add(asked, <<Log("log", "cleaning-worktrees", <<>>)>>),
                                         worktreesToDelete, env), env)

\* cleanAllWorktrees
cleanAllWorktrees(st, env) ==
    LET worktreesToDelete == listWorktreesToDelete(st.w)
        confirmed == promptForConfirmation(env.worktreesAnswer)
        asked     == Add(st, <<Prompt("worktrees", confirmed, worktreesToDelete)>>)
    IN  IF Len(worktreesToDelete) = 0
        THEN Add(st, <<Log("info", "no-worktrees-found", <<>>)>>)
        ELSE IF ~confirmed
        THEN Add(asked, <<Log("info", "skipping-worktrees", <<>>)>>)
        ELSE pruneWorktrees(RemoveListed(Add(asked, <<Log("log", "cleaning-worktrees", <<>>)>>),
                                         worktreesToDelete, env), env)

\* the loop of killAllAgentTmuxWindows over the listed windows
RECURSIVE KillListed(_, _, _)
KillListed(st, list, env) ==
    IF list = <<>> THEN st
    ELSE KillListed(killTmuxWindow(st, list[1][2], env), Tail(list), env)

\* killAllAgentTmuxWindows without the early return on an empty list
killAllAgentTmuxWindowsAlwaysAsks(st, env) ==
    LET windowsToKill == listTmuxWindowsToKill(st.w)
        confirmed == promptForConfirmation(env.windowsAnswer)
        asked     == Add(st, <<Prompt("windows", confirmed, windowsToKill)>>)
    IN  IF ~confirmed
        THEN Add(asked, <<Log("info", "skipping-windows", <<>>)>>)
        ELSE KillListed(Add(asked, <<Log("log", "killing-windows", <<>>)>>), windowsToKill, env)

\* killAllAgentTmuxWindows
killAllAgentTmuxWindows(st, env) ==
    LET windowsToKill == listTmuxWindowsToKill(st.w)
        confirmed == promptForConfirmation(env.windowsAnswer)
        asked     == Add(st, <<Prompt("windows", confirmed, windowsToKill)>>)
    IN  IF Len(windowsToKill) = 0
        THEN Add(st, <<Log("info", "no-windows-found", <<>>)>>)
        ELSE IF ~confirmed
        THEN Add(asked, <<Log("info", "skipping-windows", <<>>)>>)
        ELSE KillListed(Add(asked, <<Log("log", "killing-windows", <<>>)>>), windowsToKill, env)

\* removeMulticlaudeDirectory; env.scaffoldExists: ./.multiclaude is there
removeMulticlaudeDirectory(st, env) ==
    IF env.scaffoldExists
    THEN Add(st, <<Log("log", "removing-multiclaude-dir", <<>>),
                   Cmd("fs", "rm-multiclaude", <<>>, IF env.rmOk THEN 0 ELSE 1)>>
                 \o (IF env.rmOk THEN <<>>
                     ELSE <<Log("warn", "multiclaude-dir-remove-failed", <<>>)>>))
    ELSE Add(st, <<Log("info", "multiclaude-dir-not-found", <<>>)>>)

\* removeStagedFiles: unstages the index and unlinks *.staged.md files in
\* the current checkout; nothing of the worker state is touched
removeStagedFiles(st) ==
    Add(st, <<Log("log", "removing-staged-files", <<>>), Cmd("git", "reset-HEAD", <<>>, 0),
              Log("log", "unstaged", <<>>)>>)

\* reset(): like cleanup, no step lets an exception out
reset(w, env) ==
    LET st0 == [w |-> w, tr |-> <<Log("log", "starting-reset", <<>>)>>, threw |-> FALSE]
        st1 == removeStagedFiles(removeMulticlaudeDirectory(st0, env))
        st2 == cleanAllWorktrees(st1, env)
        st3 == killAllAgentTmuxWindows(st2, env)
        st4 == showRemainingResources(Add(st3, <<Log("log", "reset-completed", <<>>)>>))
    IN  [w |-> st4.w, tr |-> st4.tr \o <<Exit(0)>>, config |-> Config]

(***************************************************************************)
(* The state machine: one invocation of the tool after another             *)
(***************************************************************************)

World ==
    [dirs |-> dirs, worktrees |-> worktrees, branches |-> branches, windows |-> windows]

\* The states git allows: a worktree per path, a branch in one worktree only,
\* and every checked-out branch exists
WorktreeSets ==
    {ts \in SUBSET [path : Paths, branch : Names] :
        \A t1, t2 \in ts : (t1.path = t2.path \/ t1.branch = t2.branch) => t1 = t2}

\* The windows a session may hold when the first command runs: up to
\* MaxWin of them, at the indexes from the base index on
SessionWindows(session) ==
    UNION {{ {[session |-> session, idx |-> BaseIndex + i - 1, name |-> names[i]] : i \in 1..n}
             : names \in [1..n -> Names]} : n \in 0..MaxWin}

InitWindowSets ==
    {a \cup b : a \in SessionWindows(S_dev), b \in SessionWindows(S_repoAgents)}

\* Nothing is persisted between invocations: a command may find any external
\* state, left by earlier commands or made out-of-band
InitWorlds ==
    {w \in [dirs : SUBSET Paths, worktrees : WorktreeSets, branches : SUBSET Names,
            windows : InitWindowSets] :
        \A t \in w.worktrees : t.branch \in w.branches}

InitWorld ==
    \E w \in InitWorlds :
        /\ dirs = w.dirs
        /\ worktrees = w.worktrees
        /\ branches = w.branches
        /\ windows = w.windows

\* the launcher processes of a race, and the branch each one launches
Procs == {1, 2}

RaceBranch == <<N1, N2>>

\* a launcher process: its place in launch, the exit code has-session gave
\* it, the indexes list-windows showed it, the index it computed from them,
\* and what it did so far
Proc(pc) ==
    [pc |-> pc, sessionExists |-> 1, listed |-> {}, nextWindow |-> 0, tr |-> <<>>]

\* no launch runs beside the command at hand
NoRace ==
    [procs |-> [p \in Procs |-> Proc("off")], killed |-> FALSE]

\* no init runs
NoProject ==
    [ran |-> FALSE]

\* no call of runCommand is looked at on its own
NoRun ==
    [called |-> FALSE]

\* Launcher.constructor, Cleanup.constructor: this.config = loadConfig()
Init ==
    /\ cfgIn = MainCfgIn
    /\ cfgOut = [loaded |-> TRUE, out |-> loadConfig(MainCfgIn)]
    /\ InitWorld
    /\ hist = <<>>
    /\ race = NoRace
    /\ proj = NoProject
    /\ run = NoRun

\* the options of a command line that gives none
NoOptions == [humanlayer |-> FALSE]

\* a command ran from the current state and ended in st
Ran(op, b, options, st) ==
    /\ dirs' = st.w.dirs
    /\ worktrees' = st.w.worktrees
    /\ branches' = st.w.branches
    /\ windows' = st.w.windows
    /\ hist' = Append(hist, [op |-> op, b |-> b, options |-> options, pre |-> World,
                             tr |-> st.tr, config |-> st.config])
    /\ UNCHANGED <<cfgVars, sideVars>>

\* what getCurrentTmuxSession may return: null, or a live session
CurrentSessions(w) ==
    {NoSession} \cup {s \in Sessions : WindowsOf(w, s) # {}}

\* The machines with every tool installed, and no --humanlayer option. An
\* outcome the run never reads is held at TRUE
LaunchEnvs(w) ==
    [planExists : BOOLEAN, setupOk : BOOLEAN, removable : BOOLEAN, cur : CurrentSessions(w),
     rmOk : {TRUE}, missing : {"none"}, humanlayer : {FALSE}, promptOk : {TRUE},
     copyOk : {TRUE}]

\* the machines with every tool installed, on which git's prune works
CleanupEnvs ==
    [chmodOk : BOOLEAN, removable : BOOLEAN, rmOk : BOOLEAN, pruneOk : {TRUE},
     missing : {"none"}]

\* what the operator types at a confirmation prompt
Answers == {"y", "Yes", "n"}

Declines(answer) ==
    ~promptForConfirmation(answer)

\* The outcomes of a reset's external steps. An outcome the run never reads is
\* held at TRUE (fs.rmSync runs only after git fails, nothing is removed after
\* a declined prompt), and a failing chmod is paired with a succeeding removal
ResetEnvs ==
    {e \in [chmodOk : BOOLEAN, removable : BOOLEAN, rmOk : BOOLEAN,
            scaffoldExists : BOOLEAN, worktreesAnswer : Answers, windowsAnswer : Answers,
            pruneOk : {TRUE}, missing : {"none"}] :
        /\ e.removable => e.rmOk
        /\ ~e.chmodOk => e.removable
        /\ Declines(e.worktreesAnswer) => (e.chmodOk /\ e.removable)}

\* npx multiclaude launch <b> <plan> [--humanlayer], as the first command
Launch(b, env) ==
    /\ hist = <<>>
    /\ Ran("launch", b, [humanlayer |-> env.humanlayer], launch(World, b, env))

\* npx multiclaude cleanup <b>, as the first command
Cleanup(b, env) ==
    /\ hist = <<>>
    /\ Ran("cleanup", b, NoOptions, cleanup(World, b, env))

\* npx multiclaude reset, as the first command
Reset(env) ==
    /\ hist = <<>>
    /\ Ran("reset", <<>>, NoOptions, reset(World, env))

\* One invocation, from any external state
Next ==
    \/ \E b \in Names : \E env \in LaunchEnvs(World) : Launch(b, env)
    \/ \E b \in Names : \E env \in CleanupEnvs : Cleanup(b, env)
    \/ \E env \in ResetEnvs : Reset(env)

Spec == Init /\ [][Next]_vars

\* a second launch or cleanup, right after the first command
LaunchAfter(b, env) ==
    /\ hist # <<>> /\ Tail(hist) = <<>>
    /\ Ran("launch", b, [humanlayer |-> env.humanlayer], launch(World, b, env))

CleanupAfter(b, env) ==
    /\ hist # <<>> /\ Tail(hist) = <<>>
    /\ Ran("cleanup", b, NoOptions, cleanup(World, b, env))

\* Two invocations in succession, from any external state
NextSeq ==
    \/ \E b \in Names : \E env \in LaunchEnvs(World) : Launch(b, env)
    \/ \E b \in Names : \E env \in CleanupEnvs : Cleanup(b, env)
    \/ \E b \in Names : \E env \in LaunchEnvs(World) : LaunchAfter(b, env)
    \/ \E b \in Names : \E env \in CleanupEnvs : CleanupAfter(b, env)

SpecSeq == Init /\ [][NextSeq]_vars

(***************************************************************************)
(* One launch, on any machine                                              *)
(***************************************************************************)

\* The machines and command lines launch may run with: one of the tools may
\* be missing from the path, and --humanlayer may be given. An outcome the
\* run never reads is held at TRUE; without tmux there is no current session
AnyLaunchEnvs(w) ==
    {e \in [planExists : BOOLEAN, setupOk : BOOLEAN, removable : BOOLEAN,
            cur : CurrentSessions(w), rmOk : BOOLEAN,
            missing : {"none", "git", "tmux", "claude"}, humanlayer : BOOLEAN,
            promptOk : BOOLEAN, copyOk : BOOLEAN] :
        /\ ~e.promptOk => (e.planExists /\ e.setupOk /\ e.removable /\ e.missing = "none"
                           /\ ~e.humanlayer /\ e.copyOk)
        /\ ~e.copyOk => (e.planExists /\ e.setupOk /\ e.missing = "none" /\ ~e.humanlayer)
        /\ ~e.rmOk => e.missing = "git"
        /\ e.missing = "git" => (e.setupOk /\ e.removable /\ e.cur = NoSession)
        /\ e.missing = "tmux" => e.cur = NoSession
        /\ e.humanlayer => (e.setupOk /\ e.removable /\ e.missing = "none")}

NextLaunch ==
    \E b \in Names : \E env \in AnyLaunchEnvs(World) : Launch(b, env)

SpecLaunch == Init /\ [][NextLaunch]_vars

(***************************************************************************)
(* One cleanup, on any machine                                             *)
(***************************************************************************)

\* a window name that holds N1, though not at its start
N3 == <<"m", "y", "-", "q", "a">>

\* up to MaxWin windows of a session, named from nameSet
NamedWindows(session, nameSet) ==
    UNION {{ {[session |-> session, idx |-> BaseIndex + i - 1, name |-> names[i]] : i \in 1..n}
             : names \in [1..n -> nameSet]} : n \in 0..MaxWin}

CleanupWindowSets ==
    {a \cup b : a \in NamedWindows(S_dev, Names \cup {N3}),
                b \in NamedWindows(S_repoAgents, Names \cup {N3})}

CleanupWorlds ==
    {w \in [dirs : SUBSET Paths, worktrees : WorktreeSets, branches : SUBSET Names,
            windows : CleanupWindowSets] :
        \A t \in w.worktrees : t.branch \in w.branches}

InitCleanup ==
    /\ cfgIn = MainCfgIn
    /\ cfgOut = [loaded |-> TRUE, out |-> loadConfig(MainCfgIn)]
    /\ \E w \in CleanupWorlds : /\ dirs = w.dirs
                                /\ worktrees = w.worktrees
                                /\ branches = w.branches
                                /\ windows = w.windows
    /\ hist = <<>>
    /\ race = NoRace
    /\ proj = NoProject
    /\ run = NoRun

\* The machines cleanup may run on: git or tmux may be missing from the
\* path, and `git worktree prune` may exit non-zero. An outcome the run
\* never reads, or one that adds nothing to the failure at hand, is held
\* at TRUE
AnyCleanupEnvs ==
    {e \in [chmodOk : BOOLEAN, removable : BOOLEAN, rmOk : BOOLEAN, pruneOk : BOOLEAN,
            missing : {"none", "git", "tmux"}] :
        /\ ~e.pruneOk => (e.chmodOk /\ e.removable /\ e.rmOk /\ e.missing = "none")
        /\ e.missing = "git" => (e.chmodOk /\ e.removable)
        /\ e.missing = "tmux" => (e.chmodOk /\ e.rmOk)}

NextCleanup ==
    \E b \in Names : \E env \in AnyCleanupEnvs : Cleanup(b, env)

SpecCleanup == InitCleanup /\ [][NextCleanup]_vars

(***************************************************************************)
(* Launches running at the same time                                       *)
(***************************************************************************)

\* Each launch is a process of its own; between two of its awaited tmux
\* commands the other launch, or anyone at a terminal, may act on tmux.
\* The launches are for different branches, on a machine where every step
\* before the window succeeds, outside tmux (getCurrentTmuxSession: null)
RaceEnv ==
    [planExists |-> TRUE, setupOk |-> TRUE, removable |-> TRUE, cur |-> NoSession,
     rmOk |-> TRUE, missing |-> "none", humanlayer |-> FALSE, promptOk |-> TRUE,
     copyOk |-> TRUE]

\* the session both launches target
RaceSession == TargetSession(Config, RaceEnv.cur)

\* the highest index of a window in the session when the launches start
MaxIdx == 4

\* a window somebody else opened
S_zsh == <<"z", "s", "h">>

RaceWindowSets ==
    {{[session |-> RaceSession, idx |-> i, name |-> S_zsh] : i \in used} :
        used \in SUBSET (BaseIndex..MaxIdx)}

InitRace ==
    /\ cfgIn = MainCfgIn
    /\ cfgOut = [loaded |-> TRUE, out |-> loadConfig(MainCfgIn)]
    /\ dirs = {} /\ worktrees = {} /\ branches = {}
    /\ windows \in RaceWindowSets
    /\ hist = <<>>
    /\ race = [procs |-> [p \in Procs |-> Proc("start")], killed |-> FALSE]
    /\ proj = NoProject
    /\ run = NoRun

\* process p moves on to pc, having changed its fields as in next
Step(p, next) ==
    race' = [race EXCEPT !.procs[p] = next]

SetWorld(w) ==
    /\ dirs' = w.dirs
    /\ worktrees' = w.worktrees
    /\ branches' = w.branches
    /\ windows' = w.windows

\* launch up to createPromptFile: nothing of tmux is touched yet
RaceBegin(p) ==
    LET me  == race.procs[p]
        b   == RaceBranch[p]
        st0 == checkPrerequisites(LaunchStart(World, b), RaceEnv)
        chk == Add(st0, <<Cmd("fs", "exists-plan", <<>>, 0)>>)
        st1 == createWorktree(chk, b, RaceEnv)
        st2 == setupWorktree(st1, b, RaceEnv)
        st3 == createPromptFile(st2, b, RaceEnv)
    IN  /\ me.pc = "start"
        /\ IF st1.threw \/ st2.threw
           THEN /\ SetWorld(st2.w)
                /\ Step(p, [me EXCEPT !.pc = "done", !.tr = LaunchFailed(st2).tr])
           ELSE /\ SetWorld(st3.w)
                /\ Step(p, [me EXCEPT !.pc = "has-session", !.tr = st3.tr])
        /\ UNCHANGED <<hist, cfgVars, proj, run>>

\* createTmuxWindow, lines 192-199: getCurrentTmuxSession, then
\* tmux has-session -t <targetSession>
RaceHasSession(p) ==
    LET me   == race.procs[p]
        code == TmuxHasSession(World, RaceSession)
    IN  /\ me.pc = "has-session"
        /\ Step(p, [me EXCEPT !.pc = IF code = 0 THEN "list-windows" ELSE "new-session",
                              !.sessionExists = code,
                              !.tr = @ \o <<getCurrentTmuxSession(RaceEnv),
                                            Cmd("tmux", "has-session", RaceSession, code)>>])
        /\ UNCHANGED <<worldVars, cfgVars, proj, run>>

\* createTmuxWindow, line 203: getNextWindowNumber and the log line
RaceListWindows(p) ==
    LET me == race.procs[p]
    IN  /\ me.pc = "list-windows"
        /\ Step(p, [me EXCEPT !.pc = "new-window",
                              !.listed = {x.idx : x \in WindowsOf(World, RaceSession)},
                              !.nextWindow = getNextWindowNumber(World, RaceSession),
                              !.tr = @ \o <<Log("log", "adding-window", RaceSession)>>])
        /\ UNCHANGED <<worldVars, cfgVars, proj, run>>

\* createTmuxWindow, line 214: tmux new-window -t <targetSession>:<nextWindow>
RaceNewWindow(p) ==
    LET me  == race.procs[p]
        new == TmuxNewWindow(World, RaceSession, me.nextWindow, RaceBranch[p])
    IN  /\ me.pc = "new-window"
        /\ SetWorld(new.w)
        /\ Step(p, [me EXCEPT !.pc = "send-keys",
                              !.tr = @ \o <<Cmd("tmux", "new-window",
                                                Target(RaceSession, IntToStr(me.nextWindow)),
                                                new.code)>>])
        /\ UNCHANGED <<hist, cfgVars, proj, run>>

\* createTmuxWindow, line 230: tmux new-session -d -s <targetSession>
RaceNewSession(p) ==
    LET me  == race.procs[p]
        new == TmuxNewSession(World, RaceSession, RaceBranch[p])
    IN  /\ me.pc = "new-session"
        /\ SetWorld(new.w)
        /\ Step(p, [me EXCEPT !.pc = "send-keys",
                              !.tr = @ \o <<Log("log", "creating-session", RaceSession),
                                            Cmd("tmux", "new-session",
                                                Target(RaceSession, RaceBranch[p]), new.code)>>])
        /\ UNCHANGED <<hist, cfgVars, proj, run>>

\* launchClaude and the end of launch
RaceLaunchClaude(p) ==
    LET me  == race.procs[p]
        st5 == launchClaude([w |-> World, tr |-> me.tr, threw |-> FALSE,
                             config |-> [Config EXCEPT !.tmuxSession = RaceSession]],
                            RaceBranch[p], RaceEnv)
    IN  /\ me.pc = "send-keys"
        /\ Step(p, [me EXCEPT !.pc = "done",
                              !.tr = LaunchSucceeded(st5, RaceBranch[p]).tr])
        /\ UNCHANGED <<worldVars, cfgVars, proj, run>>

\* somebody at a terminal ends the session (tmux kill-session), once
RaceKillSession ==
    /\ ~race.killed
    /\ \E p \in Procs : race.procs[p].pc \notin {"off", "done"}
    /\ WindowsOf(World, RaceSession) # {}
    /\ windows' = windows \ WindowsOf(World, RaceSession)
    /\ race' = [race EXCEPT !.killed = TRUE]
    /\ UNCHANGED <<dirs, worktrees, branches, hist, cfgVars, proj, run>>

NextRace ==
    \/ \E p \in Procs : RaceBegin(p)
    \/ \E p \in Procs : RaceHasSession(p)
    \/ \E p \in Procs : RaceListWindows(p)
    \/ \E p \in Procs : RaceNewWindow(p)
    \/ \E p \in Procs : RaceNewSession(p)
    \/ \E p \in Procs : RaceLaunchClaude(p)
    \/ RaceKillSession

SpecRace == InitRace /\ [][NextRace]_vars

(***************************************************************************)
(* One call of the process runner                                          *)
(***************************************************************************)

\* the highest exit status looked at
MaxStatus == 70

\* the status libuv reports for a program that is not there (-ENOENT)
SpawnStatus == -2

\* the ways a child process may end
Children ==
    [kind : {"exit"}, status : 0..MaxStatus, closes : {TRUE}]
    \cup [kind : {"signal"}, status : {0}, closes : {TRUE}]
    \cup [kind : {"error"}, status : {SpawnStatus}, closes : BOOLEAN]

\* a call of this.runCommand by a Launcher or a Cleanup, about to be made
InitRun ==
    /\ cfgIn = MainCfgIn
    /\ cfgOut = [loaded |-> TRUE, out |-> loadConfig(MainCfgIn)]
    /\ dirs = {} /\ worktrees = {} /\ branches = {} /\ windows = {}
    /\ hist = <<>>
    /\ race = NoRace
    /\ proj = NoProject
    /\ \E class \in {"Launcher", "Cleanup"} : \E child \in Children :
           run = [called |-> FALSE, class |-> class, child |-> child,
                  promise |-> runCommand(<<>>)]

\* await this.runCommand(command, args): the child ends and the promise is
\* settled
RunCommand ==
    /\ ~run.called /\ run # NoRun
    /\ run' = [run EXCEPT !.called = TRUE, !.promise = runCommand(ChildEvents(run.child))]
    /\ UNCHANGED <<worldVars, cfgVars, race, proj>>

NextRun == RunCommand

SpecRun == InitRun /\ [][NextRun]_vars

(***************************************************************************)
(* init: src/src/cli.ts                                                    *)
(***************************************************************************)

S_setupColon == <<"s", "e", "t", "u", "p", ":">>

S_teardownColon == <<"t", "e", "a", "r", "d", "o", "w", "n", ":">>

\* the Makefile init writes: its comment line and the two targets (the
\* recipes are left out)
MAKEFILE_TEMPLATE ==
    <<"#", " ", "M", "a", "k", "e", "f", "i", "l", "e", " ", "f", "o", "r", " ", "l", "a", "u", "n", "c", "h", " ", "c", "o", "m", "p", "a", "t", "i", "b", "i", "l", "i", "t", "y", "\n">>
    \o S_setupColon \o <<NL>> \o S_teardownColon \o <<NL>>

\* the text of CLAUDE.staged.md, by its heading
CLAUDE_STAGED_TEMPLATE == <<"#", " ", "A", "I", " ", "A", "s", "s", "i", "s", "t", "a", "n", "t", " ", "I", "n", "s", "t", "r", "u", "c", "t", "i", "o", "n", "s">>

\* a file is [exists, content]
NoFile == [exists |-> FALSE, content |-> <<>>]

File(content) == [exists |-> TRUE, content |-> content]

\* the Makefiles a project may come with: none, an empty one, one with other
\* targets only, with one of the two targets, with both, and the one an
\* earlier init wrote
Makefiles ==
    {NoFile, File(<<>>), File(<<"a", "l", "l", ":", "\n">>),
     File(S_setupColon \o <<NL>>), File(S_teardownColon \o <<NL>>),
     File(<<"s", "e", "t", "u", "p", ":", "\n">> \o S_teardownColon \o <<NL>>),
     File(MAKEFILE_TEMPLATE)}

\* the persona files init copies from the package, lines 401-407
personaFiles ==
    <<"agent-developer.md", "agent-code-reviewer.md", "agent-merger.md",
      "agent-multiplan-manager.md", "agent-rebaser.md">>

\* a file under .multiclaude/personas, by name and by who wrote its text
Persona(name, content) == [name |-> name, content |-> content]

\* what an existing .multiclaude/personas may hold: nothing, a persona the
\* user has customised, and next to it a file of the user's own
PersonaDirs ==
    {{}, {Persona(personaFiles[1], "customised")},
     {Persona(personaFiles[1], "customised"), Persona("notes.md", "customised")}}

\* the project directories init may run in; without .multiclaude there are
\* no files under it
ProjectDirs ==
    {d \in [makefile : Makefiles, multiclaudeDir : BOOLEAN, personas : PersonaDirs,
            claudeStaged : {NoFile, File(<<"o", "l", "d">>)}] :
        ~d.multiclaudeDir => d.personas = {}}

\* the machine and the command line of an init: the tool `which` does not
\* find, whether `git status` exits 0, --overwrite, and the write that the
\* filesystem refuses
InitInputs ==
    [missing : {"none", "git", "tmux", "claude"}, gitOk : BOOLEAN, overwrite : BOOLEAN,
     failAt : {"none", "mkdir", "staged", "makefile"}]

\* the end of an init: the project directory, the exit status, what it said
Ended(fs, code, said) ==
    [fs |-> fs, code |-> code, said |-> said]

\* the Makefile step of initProject, lines 429-444, with the missing targets
\* appended to an existing Makefile
MakefileStepAppends(fs) ==
    LET makefileContent == fs.makefile.content
        hasSetup    == IsSubstr(S_setupColon, makefileContent)
        hasTeardown == IsSubstr(S_teardownColon, makefileContent)
    IN  IF ~fs.makefile.exists
        THEN Ended([fs EXCEPT !.makefile = File(MAKEFILE_TEMPLATE)], 0, <<"created-makefile">>)
        ELSE IF ~hasSetup \/ ~hasTeardown
        THEN Ended([fs EXCEPT !.makefile = File(makefileContent \o MAKEFILE_TEMPLATE)], 0,
                   <<"makefile-missing-targets">>)
        ELSE Ended(fs, 0, <<>>)

\* the Makefile step of initProject, lines 429-444
MakefileStep(fs) ==
    LET makefileContent == fs.makefile.content
        hasSetup    == IsSubstr(S_setupColon, makefileContent)
        hasTeardown == IsSubstr(S_teardownColon, makefileContent)
    IN  IF ~fs.makefile.exists
        THEN Ended([fs EXCEPT !.makefile = File(MAKEFILE_TEMPLATE)], 0, <<"created-makefile">>)
        ELSE IF ~hasSetup \/ ~hasTeardown
        THEN Ended(fs, 0, <<"makefile-missing-targets">>)
        ELSE Ended(fs, 0, <<>>)

\* the loop of copyFileSync over personaFiles, lines 409-421: every persona
\* the package ships replaces the file of that name
CopyPersonas(fs) ==
    [fs EXCEPT !.multiclaudeDir = TRUE,
               !.personas = {f \in @ : \A i \in DOMAIN personaFiles : f.name # personaFiles[i]}
                            \cup {Persona(personaFiles[i], "shipped") : i \in DOMAIN personaFiles}]

\* initProject with no look at what is already there
initProjectAlwaysOverwrites(in, fs) ==
    LET fs1  == CopyPersonas(fs)
        fs2  == [fs1 EXCEPT !.claudeStaged = File(CLAUDE_STAGED_TEMPLATE)]
        last == MakefileStep(fs2)
    IN  IF in.missing # "none" \/ ~in.gitOk
        THEN Ended(fs, 1, <<"setup-issues">>)
        ELSE IF in.failAt = "mkdir"
        THEN Ended(fs, 1, <<"init-error">>)
        ELSE IF in.failAt = "staged"
        THEN Ended(fs1, 1, <<"init-error">>)
        ELSE IF in.failAt = "makefile" /\ ~fs2.makefile.exists
        THEN Ended(fs2, 1, <<"init-error">>)
        ELSE Ended(last.fs, 0, last.said \o <<"init-completed">>)

\* initProject(options): the checks, then inside one try the personas
\* directory with the persona files, CLAUDE.staged.md and the Makefile; a
\* write that throws ends the run in the catch block with status 1
initProject(in, fs) ==
    LET fs1  == CopyPersonas(fs)
        fs2  == [fs1 EXCEPT !.claudeStaged = File(CLAUDE_STAGED_TEMPLATE)]
        last == MakefileStep(fs2)
    IN  IF in.missing # "none" \/ ~in.gitOk
        THEN Ended(fs, 1, <<"setup-issues">>)
        ELSE IF fs.multiclaudeDir /\ ~in.overwrite
        THEN Ended(fs, 1, <<"already-exists">>)
        ELSE IF in.failAt = "mkdir"
        THEN Ended(fs, 1, <<"init-error">>)
        ELSE IF in.failAt = "staged"
        THEN Ended(fs1, 1, <<"init-error">>)
        ELSE IF in.failAt = "makefile" /\ ~fs2.makefile.exists
        THEN Ended(fs2, 1, <<"init-error">>)
        ELSE Ended(last.fs, 0, last.said \o <<"init-completed">>)

InitProjectDir ==
    /\ cfgIn = MainCfgIn
    /\ cfgOut = [loaded |-> TRUE, out |-> loadConfig(MainCfgIn)]
    /\ dirs = {} /\ worktrees = {} /\ branches = {} /\ windows = {}
    /\ hist = <<>>
    /\ race = NoRace
    /\ run = NoRun
    /\ \E in \in InitInputs : \E fs \in ProjectDirs :
           proj = [ran |-> FALSE, in |-> in, pre |-> fs, end |-> Ended(fs, 0, <<>>)]

\* npx multiclaude init [--overwrite]
InitProject ==
    /\ ~proj.ran
    /\ proj' = [proj EXCEPT !.ran = TRUE, !.end = initProject(proj.in, proj.pre)]
    /\ UNCHANGED <<worldVars, cfgVars, race, run>>

NextInit == InitProject

SpecInit == InitProjectDir /\ [][NextInit]_vars

(***************************************************************************)
(* The configuration resolver on its own                                   *)
(***************************************************************************)

S_tmpx == <<"/", "t", "m", "p", "/", "x">>

S_tmpy == <<"/", "t", "m", "p", "/", "y">>

S_custom == <<"c", ".", "j", "s", "o", "n">>

\* the texts a config file may hold: none (no file), text JSON.parse rejects,
\* the JSON value null, or an object with any of the four fields
ConfigFiles ==
    {NoFields(Absent), NoFields(Malformed), NoFields(NullJson)}
    \cup [kind : {JsonObject},
          worktreeDir : {Unset, <<>>, S_tmpy},
          tmuxSession : {Unset, <<"t">>},
          repoName : {Unset, <<"m">>},
          defaultBranch : {Unset, <<"d">>}]

ConfigInputs ==
    [envRepoName : {Unset, <<"n">>},
     envWorktreeDir : {Unset, <<>>, S_tmpx},
     envTmuxSession : {Unset, <<"s">>},
     envConfig : {Unset, S_custom},
     cwd : {Cwd}, home : {Home}, customPath : {S_custom},
     fileDefault : ConfigFiles,
     fileCustom : {NoFields(Absent), NoFields(Malformed),
                   [NoFields(JsonObject) EXCEPT !.worktreeDir = S_tmpy]}]

InitConfig ==
    /\ dirs = {} /\ worktrees = {} /\ branches = {} /\ windows = {}
    /\ hist = <<>>
    /\ cfgIn \in ConfigInputs
    /\ cfgOut = [loaded |-> FALSE, out |-> loadConfig(MainCfgIn)]
    /\ race = NoRace
    /\ proj = NoProject
    /\ run = NoRun

\* one call of loadConfig() in the environment cfgIn describes
LoadConfig ==
    /\ ~cfgOut.loaded
    /\ cfgOut' = [loaded |-> TRUE, out |-> loadConfig(cfgIn)]
    /\ UNCHANGED <<worldVars, cfgIn, sideVars>>

NextConfig == LoadConfig

SpecConfig == InitConfig /\ [][NextConfig]_vars

(***************************************************************************)
(* Configuration precedence and malformed files                            *)
(***************************************************************************)

\* ~/.humanlayer/worktrees for the home directory of the input
DefaultWorktreeDir(in) ==
    in.home \o <<"/">> \o S_humanlayer \o <<"/">> \o S_worktrees

\* C9: the effective worktree root is the environment variable's value when
\* the variable and the config file both give one, the file's value when only
\* the file gives one, and the default when neither does
C9_EnvBeatsFile ==
    cfgOut.loaded =>
        LET env  == cfgIn.envWorktreeDir
            file == ConfigFile(cfgIn).worktreeDir
            eff  == cfgOut.out.config.worktreeDir
        IN  /\ (Truthy(env) /\ Truthy(file)) => eff = env
            /\ (~Truthy(env) /\ Truthy(file)) => eff = file
            /\ (~Truthy(env) /\ ~Truthy(file)) => eff = DefaultWorktreeDir(cfgIn)

\* C10: with a config file that holds malformed JSON, loadConfig returns
\* without throwing, prints a warning, and every field is what it is with no
\* config file at all: the environment's value where one is set, else the
\* computed default
C10_MalformedIsNoFile ==
    (cfgOut.loaded /\ ConfigFile(cfgIn).kind = Malformed) =>
        LET repo == IF Truthy(cfgIn.envRepoName) THEN cfgIn.envRepoName ELSE <<"r">>
            got  == cfgOut.out.config
        IN  /\ ~cfgOut.out.threw
            /\ cfgOut.out.warned
            /\ got.worktreeDir = (IF Truthy(cfgIn.envWorktreeDir) THEN cfgIn.envWorktreeDir
                                  ELSE DefaultWorktreeDir(cfgIn))
            /\ got.tmuxSession = (IF Truthy(cfgIn.envTmuxSession) THEN cfgIn.envTmuxSession
                                  ELSE repo \o S_agents)
            /\ got.repoName = repo
            /\ got.defaultBranch = S_main
            /\ got = loadConfig([cfgIn EXCEPT !.fileDefault = NoFields(Absent),
                                              !.fileCustom = NoFields(Absent)]).config

\* a malformed file was read while the environment set the worktree root
C10_Witness ==
    /\ cfgOut.loaded
    /\ ConfigFile(cfgIn).kind = Malformed
    /\ cfgIn.envWorktreeDir = S_tmpx
    /\ cfgOut.out.config.worktreeDir = S_tmpx

(***************************************************************************)
(* What one command leaves behind                                          *)
(***************************************************************************)

Events(tr) ==
    {tr[i] : i \in DOMAIN tr}

\* the only command run so far was op
OneRun(op) ==
    Len(hist) = 1 /\ hist[1].op = op

\* the status the process of a run ended with
ExitCode(tr) ==
    tr[Len(tr)].code

Wt(b) ==
    WorktreePath(Config, b)

SetupFailed(h) ==
    \E e \in Events(h.tr) : e.k = "cmd" /\ e.x = "make" /\ e.y = "setup" /\ e.code # 0

\* C1: when `make setup` exits non-zero during launch(b, plan), launch ends
\* with no directory at worktreeDir/repoName_b, no branch b and a non-zero
\* exit status
C1_RollbackLeavesNothing ==
    (OneRun("launch") /\ SetupFailed(hist[1])) =>
        /\ Wt(hist[1].b) \notin dirs
        /\ hist[1].b \notin branches
        /\ ExitCode(hist[1].tr) # 0

NothingFor(w, b) ==
    /\ Wt(b) \notin w.dirs
    /\ b \notin w.branches
    /\ \A x \in w.windows : x.name # b

Levels(tr) ==
    {e.x : e \in {l \in Events(tr) : l.k = "log"}}

Issued(tr, subs) ==
    {e \in Events(tr) : e.k = "cmd" /\ e.y \in subs}

\* C4: cleanup(b) run when no worktree directory, no branch and no window for
\* b exist issues no kill-window, worktree-remove or branch-delete command,
\* logs the three "not found" messages and no warning or error, and exits 0
C4_NothingToCleanIsQuiet ==
    (OneRun("cleanup") /\ NothingFor(hist[1].pre, hist[1].b)) =>
        LET tr == hist[1].tr
            b  == hist[1].b
        IN  /\ Issued(tr, {"kill-window", "worktree-remove", "branch-D", "rm"}) = {}
            /\ Log("info", "window-not-found", b) \in Events(tr)
            /\ Log("info", "worktree-not-found", Wt(b)) \in Events(tr)
            /\ Log("info", "branch-not-found", b) \in Events(tr)
            /\ Levels(tr) \cap {"warn", "error"} = {}
            /\ ExitCode(tr) = 0

\* an accepted prompt of the given kind, before position i, showed an item
\* that satisfies Shown
Accepted(tr, i, what, Shown(_)) ==
    \E j \in 1..(i - 1) :
        /\ tr[j].k = "prompt" /\ tr[j].x = what /\ tr[j].y = "yes"
        /\ \E n \in DOMAIN tr[j].items : Shown(tr[j].items[n])

\* C6: in a run of reset every worktree removal, branch deletion and
\* kill-window command comes after an accepted prompt that showed that very
\* path, branch or window, and nothing else is removed
C6_OnlyWhatWasShown ==
    OneRun("reset") =>
        LET tr == hist[1].tr
            pre == hist[1].pre
        IN  /\ \A i \in DOMAIN tr :
                 /\ (tr[i].k = "cmd" /\ tr[i].y \in {"worktree-remove", "rm"})
                       => Accepted(tr, i, "worktrees", LAMBDA item : item[1] = tr[i].tgt)
                 /\ (tr[i].k = "cmd" /\ tr[i].y = "branch-D")
                       => Accepted(tr, i, "worktrees", LAMBDA item : item[2] = tr[i].tgt)
                 /\ (tr[i].k = "cmd" /\ tr[i].y = "kill-window")
                       => Accepted(tr, i, "windows",
                                   LAMBDA item : Target(item[1], item[2]) = tr[i].tgt)
            /\ \A d \in pre.dirs \ dirs :
                 Accepted(tr, Len(tr), "worktrees", LAMBDA item : item[1] = d)
            /\ \A b \in pre.branches \ branches :
                 Accepted(tr, Len(tr), "worktrees", LAMBDA item : item[2] = b)
            /\ \A x \in pre.windows \ windows :
                 Accepted(tr, Len(tr), "windows",
                          LAMBDA item : item[1] = x.session /\ item[2] = x.name)

\* the prompts of a run, by kind and answer
Prompts(tr, what, answer) ==
    {i \in DOMAIN tr : tr[i].k = "prompt" /\ tr[i].x = what /\ tr[i].y = answer}

Shows(e, item) ==
    \E n \in DOMAIN e.items : e.items[n] = item

\* the pre-state's windows whose name carries the 'agent-' marker
MarkedWindows(w) ==
    {x \in w.windows : x.name = N2}

\* C7, as the spec words it: once the confirmation that showed a worktree is
\* declined, every other worktree discovered is still offered, in a prompt of
\* its own, and so are the windows
C7_DeclineIsPerResource ==
    OneRun("reset") =>
        LET tr == hist[1].tr
        IN  \A i \in Prompts(tr, "worktrees", "no") :
                /\ \A n \in DOMAIN tr[i].items :
                       \A m \in DOMAIN tr[i].items \ {n} :
                           \E j \in DOMAIN tr \ {i} :
                               tr[j].k = "prompt" /\ Shows(tr[j], tr[i].items[m])
                /\ \A x \in MarkedWindows(hist[1].pre) :
                       \E j \in DOMAIN tr \ {i} :
                           tr[j].k = "prompt" /\ Shows(tr[j], <<x.session, x.name>>)

\* C7, amended: a decline covers its whole category and only that category.
\* After the worktree prompt is declined no directory, registration or branch
\* has changed, and the agent windows are still offered; after the window
\* prompt is declined no window has changed, and the worktrees were offered
C7_DeclineIsPerCategory ==
    OneRun("reset") =>
        LET tr  == hist[1].tr
            pre == hist[1].pre
        IN  /\ Prompts(tr, "worktrees", "no") # {} =>
                  /\ dirs = pre.dirs /\ worktrees = pre.worktrees /\ branches = pre.branches
                  /\ Issued(tr, {"worktree-remove", "rm", "branch-D"}) = {}
                  /\ \A x \in MarkedWindows(pre) :
                         \E j \in DOMAIN tr :
                             /\ tr[j].k = "prompt" /\ tr[j].x = "windows"
                             /\ Shows(tr[j], <<x.session, x.name>>)
            /\ Prompts(tr, "windows", "no") # {} =>
                  /\ windows = pre.windows
                  /\ Issued(tr, {"kill-window"}) = {}
                  /\ \A t \in pre.worktrees :
                         \E j \in DOMAIN tr :
                             /\ tr[j].k = "prompt" /\ tr[j].x = "worktrees"
                             /\ Shows(tr[j], <<t.path, t.branch>>)

\* two worktrees were shown and declined, and an agent window was then
\* offered, accepted and killed in the same run
C7_Witness ==
    /\ OneRun("reset")
    /\ \E i \in Prompts(hist[1].tr, "worktrees", "no") : Len(hist[1].tr[i].items) = 2
    /\ Prompts(hist[1].tr, "windows", "yes") # {}
    /\ windows # hist[1].pre.windows
    /\ worktrees = hist[1].pre.worktrees

NothingToReset(w) ==
    w.worktrees = {} /\ w.windows = {}

\* what reset reports and does for the worker resources when there are no
\* linked worktrees and no tmux windows
QuietReset(h) ==
    /\ Prompts(h.tr, "worktrees", "yes") \cup Prompts(h.tr, "worktrees", "no") = {}
    /\ Prompts(h.tr, "windows", "yes") \cup Prompts(h.tr, "windows", "no") = {}
    /\ Log("info", "no-worktrees-found", <<>>) \in Events(h.tr)
    /\ Log("info", "no-windows-found", <<>>) \in Events(h.tr)
    /\ ExitCode(h.tr) = 0

\* C8, as the spec words it: with no worker worktrees and no tmux sessions,
\* reset asks nothing, reports zero worktrees and zero windows, removes
\* nothing at all and exits 0
C8_EmptyResetRemovesNothing ==
    (OneRun("reset") /\ NothingToReset(hist[1].pre)) =>
        /\ QuietReset(hist[1])
        /\ World = hist[1].pre
        /\ Issued(hist[1].tr, {"worktree-remove", "rm", "branch-D", "kill-window",
                                "rm-multiclaude"}) = {}

\* C8, amended: with no worker worktrees and no tmux sessions, reset asks
\* nothing, reports zero worktrees and zero windows, removes no directory
\* under the worktree root, no branch and no window, and exits 0; the
\* .multiclaude directory, when there is one, is still removed, unasked
C8_EmptyResetKeepsWorkers ==
    (OneRun("reset") /\ NothingToReset(hist[1].pre)) =>
        /\ QuietReset(hist[1])
        /\ World = hist[1].pre
        /\ Issued(hist[1].tr, {"worktree-remove", "rm", "branch-D", "kill-window"}) = {}

\* a reset that found no worktree and no session, with a leftover directory
\* and branch in place and a .multiclaude directory that it removed
C8_Witness ==
    /\ OneRun("reset")
    /\ NothingToReset(hist[1].pre)
    /\ hist[1].pre.dirs # {} /\ hist[1].pre.branches # {}
    /\ Issued(hist[1].tr, {"rm-multiclaude"}) # {}

(***************************************************************************)
(* What two commands in succession leave behind                            *)
(***************************************************************************)

\* the two commands run so far were op1 and then op2, for the same branch
TwoRuns(op1, op2) ==
    /\ Len(hist) = 2
    /\ hist[1].op = op1 /\ hist[2].op = op2
    /\ hist[1].b = hist[2].b

\* no fs.rmSync of the run failed: the machine let the run delete what it
\* set out to delete
RmWorked(tr) ==
    \A e \in Issued(tr, {"rm"}) : e.code = 0

\* nor did a `git worktree remove`
GitRemoveWorked(tr) ==
    \A e \in Issued(tr, {"worktree-remove"}) : e.code = 0

\* nothing of b: no directory, no registration, no branch, no window
CleanFor(w, b) ==
    /\ NothingFor(w, b)
    /\ ~Registered(w, Wt(b))
    /\ ~CheckedOut(w, b)

\* C2: from a state with no worktree, branch or window for b, a successful
\* launch(b, plan) followed by cleanup(b) leaves no directory for b under
\* the worktree root, no branch b and no window named b in any session
\* (stated for the machines on which git's removal works)
C2_LaunchThenCleanup ==
    (/\ TwoRuns("launch", "cleanup")
     /\ CleanFor(hist[1].pre, hist[1].b)
     /\ ExitCode(hist[1].tr) = 0
     /\ GitRemoveWorked(hist[2].tr)) =>
        NothingFor(World, hist[1].b)

\* C3: from every starting state, cleanup(b) run twice ends in the state one
\* run ends in, and that state has no worktree directory for b, no branch b
\* and no window named b (stated for the machines on which fs.rmSync works)
C3_CleanupTwiceIsOnce ==
    (/\ TwoRuns("cleanup", "cleanup")
     /\ RmWorked(hist[1].tr) /\ RmWorked(hist[2].tr)) =>
        /\ World = hist[2].pre
        /\ NothingFor(World, hist[1].b)

\* C5: the second of two launches of the same branch, the first of which
\* succeeded, removes the first worktree by force with a warning, creates a
\* fresh worktree on the branch and succeeds (stated for the machines on
\* which git's removal works)
C5_SecondLaunchSucceeds ==
    (/\ TwoRuns("launch", "launch")
     /\ ExitCode(hist[1].tr) = 0
     /\ Log("log", "creating-worktree", hist[2].b) \in Events(hist[2].tr)
     /\ GitRemoveWorked(hist[2].tr)) =>
        LET tr == hist[2].tr
            b  == hist[2].b
        IN  /\ Log("warn", "removing-existing-worktree", Wt(b)) \in Events(tr)
            /\ Cmd("git", "worktree-remove", Wt(b), 0) \in Events(tr)
            /\ Cmd("git", "worktree-add", Wt(b), 0) \in Events(tr)
            /\ [path |-> Wt(b), branch |-> b] \in worktrees
            /\ Wt(b) \in dirs
            /\ ExitCode(tr) = 0

(***************************************************************************)
(* The window of a launch                                                  *)
(***************************************************************************)

\* a launch that found the session there and has computed a window index
HasListed(me) ==
    me.pc \in {"new-window", "send-keys", "done"} /\ me.sessionExists = 0

\* C11: when the target session exists, the index a launch requests for its
\* new window is the highest index listed plus one, whatever gaps lie below
\* it (windows 1, 3, 4 give 5, not 2), and 1 when no window is listed
C11_NextIsMaxPlusOne ==
    \A p \in Procs :
        LET me       == race.procs[p]
            expected == IF me.listed = {} THEN 1 ELSE Max(me.listed) + 1
        IN  HasListed(me) =>
                /\ me.nextWindow = expected
                /\ me.listed = {1, 3, 4} => me.nextWindow = 5
                /\ \A e \in Issued(me.tr, {"new-window"}) :
                       /\ e.tgt = Target(RaceSession, IntToStr(expected))
                       /\ me.listed = {1, 3, 4} => e.tgt = RaceSession \o <<":", "5">>

\* a launch listed the windows 1, 3 and 4 and got its window at index 5
C11_Witness ==
    \E p \in Procs :
        /\ race.procs[p].pc = "done"
        /\ race.procs[p].listed = {1, 3, 4}
        /\ Cmd("tmux", "new-window", RaceSession \o <<":", "5">>, 0) \in Events(race.procs[p].tr)
        /\ [session |-> RaceSession, idx |-> 5, name |-> RaceBranch[p]] \in windows

(***************************************************************************)
(* The steps of cleanup                                                    *)
(***************************************************************************)

\* the positions at which a run shows one of the given log tags or commands
At(tr, tags) ==
    {i \in DOMAIN tr : tr[i].k \in {"log", "cmd"} /\ tr[i].y \in tags}

\* the five steps of cleanup were all attempted, in their order
CleanupStepsInOrder(tr) ==
    \E i1 \in At(tr, {"killing-window", "window-not-found"}) :
    \E i2 \in At(tr, {"removing-worktree", "worktree-not-found"}) :
    \E i3 \in At(tr, {"show-ref"}) :
    \E i4 \in At(tr, {"pruning"}) :
    \E i5 \in At(tr, {"remaining-resources"}) :
        i1 < i2 /\ i2 < i3 /\ i3 < i4 /\ i4 < i5

\* the commands with which cleanup acts on a resource
Acting == {"kill-window", "-R", "worktree-remove", "rm", "branch-D", "worktree-prune"}

\* the positions of the commands of a run that failed: an acting command
\* that exited non-zero, or any git command that could not be started
FailedAt(tr) ==
    {i \in DOMAIN tr :
        /\ tr[i].k = "cmd"
        /\ \/ tr[i].y \in Acting /\ tr[i].code # 0
           \/ tr[i].x = "git" /\ tr[i].code = SpawnError}

\* C12: cleanup(b) attempts kill window, remove worktree, delete branch,
\* prune and the summary in that order whatever fails, and the failure of a
\* step (a non-zero exit, or a command that cannot be started) is logged:
\* a warning or an error follows the failed command
C12_FailuresLoggedStepsGoOn ==
    OneRun("cleanup") =>
        LET tr == hist[1].tr
        IN  /\ CleanupStepsInOrder(tr)
            /\ \A i \in FailedAt(tr) :
                   tr[i + 1].k = "log" /\ tr[i + 1].x \in {"warn", "error"}

\* C13: cleanup(b) ends with exit status 0 whatever its steps met: a failed
\* kill-window, worktree removal, branch deletion or prune never takes the
\* run into the catch block of cleanup
C13_CleanupExitsZero ==
    OneRun("cleanup") =>
        /\ ExitCode(hist[1].tr) = 0
        /\ At(hist[1].tr, {"cleanup-failed"}) = {}
        /\ At(hist[1].tr, {"cleanup-completed"}) # {}

\* a cleanup on a machine without git, where the directory could not be
\* removed by hand either: removal, branch deletion and prune all failed,
\* and the run ended with status 0
C13_Witness ==
    /\ OneRun("cleanup")
    /\ Cmd("git", "worktree-remove", Wt(hist[1].b), SpawnError) \in Events(hist[1].tr)
    /\ Cmd("fs", "rm", Wt(hist[1].b), 1) \in Events(hist[1].tr)
    /\ Cmd("git", "show-ref", hist[1].b, SpawnError) \in Events(hist[1].tr)
    /\ Cmd("git", "worktree-prune", <<>>, SpawnError) \in Events(hist[1].tr)
    /\ Wt(hist[1].b) \in dirs
    /\ ExitCode(hist[1].tr) = 0

(***************************************************************************)
(* The steps of launch                                                     *)
(***************************************************************************)

\* the tools `which` did not find
NotFound(tr) ==
    {e.y : e \in {c \in Events(tr) : c.k = "cmd" /\ c.x = "which" /\ c.code # 0}}

\* the commands with which launch acts on a worktree, a branch or tmux
LaunchActing ==
    {"worktree-remove", "rm", "worktree-add", "copy-files", "setup", "branch-D",
     "copy-prompt", "display-message", "has-session", "new-window", "new-session",
     "send-keys claude C-m", "send-keys C-m", "send-keys S-Tab"}

\* C14: when one of git, tmux and claude is not on the search path, launch
\* fails at once: it exits non-zero and performs no worktree, branch or tmux
\* operation
C14_MissingToolStopsLaunch ==
    (OneRun("launch") /\ NotFound(hist[1].tr) # {}) =>
        /\ ExitCode(hist[1].tr) # 0
        /\ Issued(hist[1].tr, LaunchActing) = {}
        /\ World = hist[1].pre

PlanMissing(tr) ==
    Cmd("fs", "exists-plan", <<>>, 1) \in Events(tr)

\* C15: when the plan file does not exist, launch(b, plan) exits non-zero
\* and creates, removes and changes nothing: no directory under the worktree
\* root, no branch, no session and no window differs from before, and no
\* git, make or tmux command is run
C15_NoPlanNoChange ==
    (OneRun("launch") /\ PlanMissing(hist[1].tr)) =>
        /\ ExitCode(hist[1].tr) # 0
        /\ World = hist[1].pre
        /\ Issued(hist[1].tr, LaunchActing) = {}
        /\ At(hist[1].tr, {"launch-failed"}) # {}

\* a launch without its plan file, from a state in which it would have
\* found a stale directory to remove and a session to add a window to
C15_Witness ==
    /\ OneRun("launch")
    /\ PlanMissing(hist[1].tr)
    /\ Wt(hist[1].b) \in hist[1].pre.dirs
    /\ hist[1].pre.windows # {}
    /\ ExitCode(hist[1].tr) = 1

\* what each step of launch shows in a run: check prerequisites (with the
\* look for the plan file), create worktree, run setup, stage prompt, ensure
\* window, start agent
StepTags ==
    <<{"which", "exists-plan"},
      {"creating-worktree", "removing-existing-worktree", "rm", "worktree-add",
       "copy-files", "worktree-created"},
      {"setting-up", "setup", "setup-failed", "branch-D"},
      {"copy-prompt"},
      {"display-message", "has-session", "adding-window", "creating-session", "new-window",
       "new-session"},
      {"starting-claude", "send-keys claude C-m", "send-keys C-m", "send-keys S-Tab"}>>

Steps == DOMAIN StepTags

\* the positions at which a step failed fatally: no plan file, a worktree
\* that could not be created, a failed setup, a prompt that could not be
\* written, a command that could not be started, a directory that could not
\* be removed by hand
FatalAt(tr, k) ==
    {i \in At(tr, StepTags[k]) :
        /\ tr[i].k = "cmd"
        /\ tr[i].code # 0
        /\ tr[i].y \in {"exists-plan", "worktree-add", "copy-files", "setup", "copy-prompt",
                        "has-session", "rm"}
        /\ tr[i].y = "has-session" => tr[i].code = SpawnError}

C19_HumanlayerUsesNoTmux ==
    (OneRun("launch") /\ hist[1].options.humanlayer) =>
        /\ windows = hist[1].pre.windows
        /\ Issued(hist[1].tr, {"new-window", "new-session", "send-keys claude C-m",
                                "send-keys C-m", "send-keys S-Tab"}) = {}

(***************************************************************************)
(* Two launches at the same time                                           *)
(***************************************************************************)

\* the session holds a window named after the branch of launch p
HasOwnWindow(p) ==
    \E x \in windows : x.session = RaceSession /\ x.name = RaceBranch[p]

\* launch p found no session, and its new-session was refused because the
\* other launch had created the session in between
LostSessionRace(p) ==
    /\ race.procs[p].pc = "done"
    /\ race.procs[p].sessionExists # 0
    /\ \E e \in Issued(race.procs[p].tr, {"new-session"}) : e.code # 0

\* C17: a launch that loses the race for creating the session (the other
\* launch creates it between this one's has-session and new-session) takes
\* the refusal as success and still ends with a window named after its
\* branch in that session (stated for the runs in which nobody ends the
\* session)
C17_SessionRaceLoserGetsWindow ==
    \A p \in Procs :
        (LostSessionRace(p) /\ ~race.killed) =>
            /\ ExitCode(race.procs[p].tr) = 0
            /\ HasOwnWindow(p)

\* both launches found the session, listed its windows before either had
\* created one, and so computed the same index
SameIndex ==
    /\ \A p \in Procs : race.procs[p].pc = "done" /\ HasListed(race.procs[p])
    /\ \A p, q \in Procs : race.procs[p].nextWindow = race.procs[q].nextWindow

\* C18: when two launches into the same session compute the same next
\* index, both workers still end up with a window of their own, at distinct
\* indexes (stated for the runs in which nobody ends the session)
C18_IndexCollisionTolerated ==
    (SameIndex /\ ~race.killed) =>
        /\ \A p \in Procs : HasOwnWindow(p)
        /\ \A x, y \in WindowsOf(World, RaceSession) : x.idx = y.idx => x = y

(***************************************************************************)
(* init and the Makefile                                                   *)
(***************************************************************************)

InitOnExisting ==
    proj.ran /\ proj.pre.multiclaudeDir /\ ~proj.in.overwrite

NoInput ==
    {"display-message", "has-session", "list-sessions", "list-windows", "new-window",
     "new-session", "kill-window"}

\* the input sent to windows and the pauses, in the order of the run
Keystrokes(tr) ==
    SelectSeq(tr, LAMBDA e : \/ e.k = "wait"
                             \/ (e.k = "cmd" /\ e.x = "tmux" /\ e.y \notin NoInput))

\* what was sent, or how long the pause was
Sent(e) ==
    IF e.k = "wait" THEN IntToStr(e.code) ELSE e.y

\* C22: starting the agent sends to the worker window the agent command
\* line with Enter, after 2s Enter, after 1s Enter, after 1s the Shift+Tab
\* mode toggle, one after the other; nothing else is sent to any window and
\* the toggle is last, whether or not tmux accepted the sends
C22_AgentStartHandshake ==
    \A n \in DOMAIN hist : hist[n].op = "launch" =>
        LET tr == hist[n].tr
            ks == Keystrokes(tr)
        IN  /\ At(tr, {"starting-claude"}) # {} =>
                   /\ [i \in DOMAIN ks |-> Sent(ks[i])]
                          = <<"send-keys claude C-m", IntToStr(2000), "send-keys C-m",
                              IntToStr(1000), "send-keys C-m", IntToStr(1000),
                              "send-keys S-Tab">>
                   /\ \A i, j \in DOMAIN ks :
                          (ks[i].k = "cmd" /\ ks[j].k = "cmd") => ks[i].tgt = ks[j].tgt
                   /\ \A i \in DOMAIN tr : \A j \in At(tr, {"starting-claude"}) :
                          (tr[i].k = "wait" \/ tr[i] \in Events(ks)) => j < i
            /\ At(tr, {"starting-claude"}) = {} => ks = <<>>
            /\ ExitCode(tr) = 0 => At(tr, {"starting-claude"}) # {}

\* a launch that reported success although tmux refused its input: the
\* session already held a window of the worker's name, so that the target
\* was ambiguous, and all four sends were made all the same
C22_Witness ==
    /\ OneRun("launch")
    /\ ExitCode(hist[1].tr) = 0
    /\ Len(Keystrokes(hist[1].tr)) = 7
    /\ \E e \in Events(Keystrokes(hist[1].tr)) : e.k = "cmd" /\ e.code # 0

(***************************************************************************)
(* The two ways of removing a worktree                                     *)
(***************************************************************************)

\* the positions of the commands of the given kind on the given path
CmdAt(tr, sub, path) ==
    {i \in DOMAIN tr : tr[i].k = "cmd" /\ tr[i].y = sub /\ tr[i].tgt = path}

\* the positions at which an error about the given path is reported
ErrorAt(tr, path) ==
    {i \in DOMAIN tr : tr[i].k = "log" /\ tr[i].x = "error" /\ tr[i].tgt = path}

\* C23: on an existing directory removeWorktree attempts git's removal, once
\* and after the permission fix whatever that fix came to; whenever git's
\* removal exits non-zero or cannot be run the forced filesystem delete is
\* attempted as well; and an error is reported only after both were attempted
C23_BothRemovalsBeforeError ==
    \A n \in DOMAIN hist :
        (hist[n].op = "cleanup" /\ Wt(hist[n].b) \in hist[n].pre.dirs) =>
            LET tr  == hist[n].tr
                git == CmdAt(tr, "worktree-remove", Wt(hist[n].b))
                rm  == CmdAt(tr, "rm", Wt(hist[n].b))
            IN  /\ Cardinality(git) = 1
                /\ \A c \in CmdAt(tr, "-R", Wt(hist[n].b)) : \A i \in git : c < i
                /\ \A i \in git : tr[i].code # 0 => \E j \in rm : i < j
                /\ \A k \in ErrorAt(tr, Wt(hist[n].b)) :
                       \E i \in git : \E j \in rm : i < j /\ j < k

\* a cleanup on which chmod failed, git refused the removal and the forced
\* delete failed too: the error came after both attempts
C23_Witness ==
    /\ OneRun("cleanup")
    /\ Wt(hist[1].b) \in hist[1].pre.dirs
    /\ \E c \in CmdAt(hist[1].tr, "-R", Wt(hist[1].b)) : hist[1].tr[c].code # 0
    /\ \E i \in CmdAt(hist[1].tr, "worktree-remove", Wt(hist[1].b)) : hist[1].tr[i].code = 128
    /\ ErrorAt(hist[1].tr, Wt(hist[1].b)) # {}
    /\ Wt(hist[1].b) \in dirs

(***************************************************************************)
(* Finding the window of a worker                                          *)
(***************************************************************************)

\* the sessions findWindowInAllSessions reported in a run of cleanup(b): the
\* session in `Killing tmux window: <session>:<b>`, none after `Tmux window
\* not found`
FoundIn(h) ==
    {session \in Sessions :
        Log("log", "killing-window", Target(session, h.b)) \in Events(h.tr)}

\* C24: findWindowInAllSessions(name) returns a session only if that session
\* has a window whose name is exactly name, and null when no session has
\* one; a window whose name merely contains name never makes it report a
\* session. Seen at the first step of cleanup(b), which looks for window b
C24_FoundWindowIsExact ==
    \A n \in DOMAIN hist : hist[n].op = "cleanup" =>
        /\ \A session \in FoundIn(hist[n]) :
               \E x \in WindowsOf(hist[n].pre, session) : x.name = hist[n].b
        /\ (\A x \in hist[n].pre.windows : x.name # hist[n].b) =>
               /\ FoundIn(hist[n]) = {}
               /\ At(hist[n].tr, {"window-not-found"}) # {}

(***************************************************************************)
(* The configuration during a command                                      *)
(***************************************************************************)

\* C25: the effective configuration is resolved once per invocation and
\* none of its fields changes afterwards: when a launch, cleanup or reset
\* ends, this.config is still what loadConfig() returned to the constructor
C25_ConfigNeverChanges ==
    \A n \in DOMAIN hist : hist[n].config = Config

(***************************************************************************)
(* What the process runner tells its caller                                *)
(***************************************************************************)

\* C26: the process runner never raises for a command that ran: the promise
\* is resolved and the caller reads the exit code from the result, which for
\* a non-zero exit is that status; a command that could not be started is
\* not reported as a success (the promise is rejected)
C26_RunnerResolvesExitCodes ==
    run.called =>
        /\ run.promise.settled # "pending"
        /\ run.child.kind \in {"exit", "signal"} => run.promise.settled = "resolved"
        /\ (run.child.kind = "exit" /\ run.child.status # 0) =>
               run.promise = Resolved(run.child.status)
        /\ run.child.kind = "error" => run.promise # Resolved(0)

\* a command that ran and failed with the highest status looked at, read by
\* its caller from the resolved promise
C26_Witness ==
    /\ run.called
    /\ run.child.kind = "exit" /\ run.child.status = MaxStatus
    /\ run.promise = Resolved(MaxStatus)

(***************************************************************************)
(* A launch that fails after the setup                                     *)
(***************************************************************************)

\* the setup of a launch succeeded: `make setup` exited 0
SetupDone(tr) ==
    \E e \in Events(tr) : e.k = "cmd" /\ e.x = "make" /\ e.y = "setup" /\ e.code = 0

\* C27: when launch fails at the stage-prompt step or later, after the setup
\* succeeded, nothing is rolled back: no removal is attempted, and the
\* worktree directory and the branch created earlier still exist, the
\* worktree registered on that branch, when launch exits non-zero
C27_NoRollbackAfterSetup ==
    \A n \in DOMAIN hist :
        (hist[n].op = "launch" /\ SetupDone(hist[n].tr) /\ ExitCode(hist[n].tr) # 0) =>
            LET tr == hist[n].tr
                b  == hist[n].b
            IN  /\ \A i \in At(tr, {"setup"}) :
                       \A j \in At(tr, {"worktree-remove", "rm", "branch-D"}) : j < i
                /\ n = Len(hist) =>
                       /\ Wt(b) \in dirs
                       /\ b \in branches
                       /\ [path |-> Wt(b), branch |-> b] \in worktrees

\* a launch that replaced a stale directory, set the worktree up and then
\* could not write prompt.md: it exited 1 and left worktree and branch
C27_Witness ==
    /\ OneRun("launch")
    /\ Wt(hist[1].b) \in hist[1].pre.dirs
    /\ SetupDone(hist[1].tr)
    /\ Cmd("fs", "copy-prompt", Wt(hist[1].b), 1) \in Events(hist[1].tr)
    /\ ExitCode(hist[1].tr) = 1
    /\ Wt(hist[1].b) \in dirs /\ hist[1].b \in branches

(***************************************************************************)
(* The session of the worker window                                        *)
(***************************************************************************)

\* the commands of a run that create a window
Creations(tr) ==
    {e \in Events(tr) : e.k = "cmd" /\ e.y \in {"new-window", "new-session"}}

\* the session the caller of a launch was attached to, as display-message
\* printed it; NoSession outside tmux
Attached(tr) ==
    LET shown == {e \in Events(tr) : e.k = "cmd" /\ e.y = "display-message" /\ e.code = 0}
    IN  IF shown = {} THEN NoSession ELSE (CHOOSE e \in shown : TRUE).tgt

\* the session the window of a launch belongs in: the attached one when
\* there is one, else the configured one
WindowSession(tr) ==
    IF Attached(tr) # NoSession THEN Attached(tr) ELSE Config.tmuxSession

\* the session named in a tmux target `<session>:<window>`
SessionOf(target) ==
    SubSeq(target, 1, IndexOf(<<":">>, target) - 1)

\* C28: ensureWindow creates the worker window in the session the caller
\* is attached to when there is one, otherwise in the configured session,
\* and every keystroke of the agent start is addressed to that same session
\* under the window name b
C28_KeystrokesFollowTheWindow ==
    \A n \in DOMAIN hist : (hist[n].op = "launch" /\ Creations(hist[n].tr) # {}) =>
        LET tr == hist[n].tr
            ks == Keystrokes(tr)
        IN  /\ \A e \in Creations(tr) : SessionOf(e.tgt) = WindowSession(tr)
            /\ n = Len(hist) =>
                   \E x \in WindowsOf(World, WindowSession(tr)) : x.name = hist[n].b
            /\ \E i \in DOMAIN ks : ks[i].k = "cmd"
            /\ \A i \in DOMAIN ks :
                   ks[i].k = "cmd" => ks[i].tgt = Target(WindowSession(tr), hist[n].b)

\* a launch from inside a session that is not the configured one, while the
\* configured session exists too: window and keystrokes went to the
\* attached session
C28_Witness ==
    /\ OneRun("launch")
    /\ Attached(hist[1].tr) \notin {NoSession, Config.tmuxSession}
    /\ WindowsOf(hist[1].pre, Config.tmuxSession) # {}
    /\ ExitCode(hist[1].tr) = 0
    /\ Cmd("tmux", "send-keys S-Tab", Target(Attached(hist[1].tr), hist[1].b), 0)
           \in Events(hist[1].tr)

(***************************************************************************)
(* What a reported success stands for                                      *)
(***************************************************************************)

\* the session a launch named in its success message
ReportedSession(tr) ==
    (CHOOSE e \in Events(tr) : e.k = "log" /\ e.y = "session").tgt

\* launch p ends now, reporting success, and nobody ended the session
ReportsSuccess(p) ==
    /\ race.procs[p].pc # "done" /\ race'.procs[p].pc = "done"
    /\ ExitCode(race'.procs[p].tr) = 0
    /\ At(race'.procs[p].tr, {"worker-launched"}) # {}
    /\ ~race'.killed

\* C29: whenever launch(b, plan) reports success, the worktree of b exists
\* on branch b with prompt.md written, and a tmux window named b exists in
\* the session the message names, even when a tmux command of the window or
\* agent step failed
C29_SuccessMeansWorkerExists ==
    [][\A p \in Procs : ReportsSuccess(p) =>
           /\ Wt(RaceBranch[p]) \in dirs'
           /\ [path |-> Wt(RaceBranch[p]), branch |-> RaceBranch[p]] \in worktrees'
           /\ Cmd("fs", "copy-prompt", Wt(RaceBranch[p]), 0) \in Events(race'.procs[p].tr)
           /\ \E x \in windows' : /\ x.session = ReportedSession(race'.procs[p].tr)
                                   /\ x.name = RaceBranch[p]]_vars

(***************************************************************************)
(* Launch and cleanup agree on where a worker lives                        *)
(***************************************************************************)

\* a machine on which every step of a launch works, run outside tmux
SmoothLaunch ==
    [planExists |-> TRUE, setupOk |-> TRUE, removable |-> TRUE, cur |-> NoSession,
     rmOk |-> TRUE, missing |-> "none", humanlayer |-> FALSE, promptOk |-> TRUE,
     copyOk |-> TRUE]

\* a machine on which every step of a cleanup works
SmoothCleanup ==
    [chmodOk |-> TRUE, removable |-> TRUE, rmOk |-> TRUE, pruneOk |-> TRUE,
     missing |-> "none"]

\* launch(b, plan) under the configuration loaded
Launched(b) ==
    launch(World, b, SmoothLaunch)

\* the directories launch(b, plan) has git create
Created(b) ==
    {e.tgt : e \in Issued(Launched(b).tr, {"worktree-add"})}

\* the directories cleanup(b) finds and has git remove, run after that launch
Removed(b) ==
    {e.tgt : e \in Issued(cleanup(Launched(b).w, b, SmoothCleanup).tr, {"worktree-remove"})}

\* C30: under one environment, working directory and config file, the
\* worktree path cleanup(b) inspects and removes is the path launch(b, plan)
\* creates, the worktree root joined with "{repoName}_{b}", for every b
C30_CleanupFindsWhatLaunchMade ==
    cfgOut.loaded =>
        \A b \in Names :
            /\ Created(b) = {Config.worktreeDir \o <<"/">> \o Config.repoName \o <<"_">> \o b}
            /\ Removed(b) = Created(b)

\* root and repository name both come from outside the defaults, and the
\* directory launch made for N1 is the one cleanup removed
C30_Witness ==
    /\ cfgOut.loaded
    /\ Config.worktreeDir = S_tmpy
    /\ Config.repoName = <<"n">>
    /\ Created(N1) = {S_tmpy \o <<"/", "n", "_">> \o N1}
    /\ Removed(N1) = Created(N1)

(***************************************************************************)
(* What reset acts on after an accepted prompt                             *)
(***************************************************************************)

\* the items the accepted prompts of the given kind showed
Listed(tr, what) ==
    UNION {{e.items[n] : n \in DOMAIN e.items} :
           e \in {x \in Events(tr) : x.k = "prompt" /\ x.x = what /\ x.y = "yes"}}

\* the directories removeWorktree looked for, one per call
LookedFor(tr) ==
    {e.tgt : e \in {x \in Events(tr) :
                      x.k = "log" /\ x.y \in {"removing-worktree", "worktree-not-found"}}}

\* C31: after the worktree confirmation of reset is accepted, every directory
\* reset removes is one of the listed worktree paths, and the path looked for
\* and removed for a listed entry is the listed path, never another path
\* recomputed from the entry's branch name
C31_ListedPathIsThePathRemoved ==
    OneRun("reset") =>
        LET tr     == hist[1].tr
            listed == {item[1] : item \in Listed(tr, "worktrees")}
        IN  /\ hist[1].pre.dirs \ dirs \subseteq listed
            /\ {e.tgt : e \in Issued(tr, {"worktree-remove", "rm"})} \subseteq listed
            /\ LookedFor(tr) \subseteq listed

(***************************************************************************)
(* Reset among windows with hexadecimal names                              *)
(***************************************************************************)

\* a name /^[a-f0-9-]{8,}$/ accepts
H1 == <<"c", "a", "f", "e", "-", "b", "a", "b", "e">>

\* a name that starts with H1 and is no agent window: x is no hex digit
H2 == H1 \o <<"-", "x">>

HexWindowSets ==
    {a \cup b : a \in NamedWindows(S_dev, {N2, H1, H2}),
                b \in NamedWindows(S_repoAgents, {N2, H1, H2})}

\* no worktree is registered, so reset has only windows to offer
HexWorlds ==
    [dirs : SUBSET Paths, worktrees : {{}}, branches : SUBSET Names, windows : HexWindowSets]

InitHexWindows ==
    /\ cfgIn = MainCfgIn
    /\ cfgOut = [loaded |-> TRUE, out |-> loadConfig(MainCfgIn)]
    /\ \E w \in HexWorlds : /\ dirs = w.dirs
                            /\ worktrees = w.worktrees
                            /\ branches = w.branches
                            /\ windows = w.windows
    /\ hist = <<>>
    /\ race = NoRace
    /\ proj = NoProject
    /\ run = NoRun

\* the outcomes reset reads when git lists no worktree: the answer to the
\* window prompt and whether ./.multiclaude is there
HexResetEnvs ==
    [chmodOk : {TRUE}, removable : {TRUE}, rmOk : {TRUE}, scaffoldExists : BOOLEAN,
     worktreesAnswer : {"y"}, windowsAnswer : Answers, pruneOk : {TRUE}, missing : {"none"}]

NextHexWindows ==
    \E env \in HexResetEnvs : Reset(env)

SpecHexWindows == InitHexWindows /\ [][NextHexWindows]_vars

\* C32: after the window confirmation of reset is accepted, every window
\* reset kills is one of the (session, window) pairs the prompt listed; a
\* window of another session or with another name is never killed
C32_OnlyListedWindowsKilled ==
    OneRun("reset") =>
        \A x \in hist[1].pre.windows \ windows :
            <<x.session, x.name>> \in Listed(hist[1].tr, "windows")

(***************************************************************************)
(* What cleanup leaves alone                                               *)
(***************************************************************************)

\* the windows of a world named name
WindowsNamed(w, name) ==
    {x \in w.windows : x.name = name}

\* C33: cleanup(b) leaves every other worker untouched: for every branch
\* name other than b, names that contain b included, its worktree
\* directory, its branch and its tmux window are after cleanup(b) as before
C33_CleanupKeepsOtherWorkers ==
    OneRun("cleanup") =>
        \A other \in Names \ {hist[1].b} :
            /\ (Wt(other) \in dirs) = (Wt(other) \in hist[1].pre.dirs)
            /\ (other \in branches) = (other \in hist[1].pre.branches)
            /\ WindowsNamed(World, other) = WindowsNamed(hist[1].pre, other)

(***************************************************************************)
(* A worktree whose directory was deleted out-of-band                      *)
(***************************************************************************)

\* git has the worktree of b registered on branch b, and its directory is gone
StaleRegistration(w, b) ==
    /\ [path |-> WorktreePath(Config, b), branch |-> b] \in w.worktrees
    /\ WorktreePath(Config, b) \notin w.dirs

\* C34: when the worktree directory of b was deleted out-of-band while git
\* still has the worktree registered, one run of cleanup(b) ends with the
\* stale registration pruned and branch b deleted, although the branch
\* deletion is attempted before the prune
C34_StaleWorktreeCleanedInOneRun ==
    (OneRun("cleanup") /\ StaleRegistration(hist[1].pre, hist[1].b)) =>
        /\ ~Registered(World, Wt(hist[1].b))
        /\ hist[1].b \notin branches

(***************************************************************************)
(* Two launches at once: createWorktree and setupWorktree, step by step    *)
(***************************************************************************)

\* info.worktreeDir of launch p
RaceDir(p) ==
    getWorktreeInfo(Config, RaceBranch[p]).worktreeDir

\* both launches start in any state earlier commands left, with no window
InitRaceWorktree ==
    /\ cfgIn = MainCfgIn
    /\ cfgOut = [loaded |-> TRUE, out |-> loadConfig(MainCfgIn)]
    /\ \E w \in InitWorlds : /\ w.windows = {}
                             /\ dirs = w.dirs
                             /\ worktrees = w.worktrees
                             /\ branches = w.branches
                             /\ windows = w.windows
    /\ hist = <<>>
    /\ race = [procs |-> [p \in Procs |-> Proc("exists-sync")], killed |-> FALSE]
    /\ proj = NoProject
    /\ run = NoRun

\* createWorktree, line 89: fs.existsSync(info.worktreeDir)
RaceExistsSync(p) ==
    LET me == race.procs[p]
    IN  /\ me.pc = "exists-sync"
        /\ Step(p, [me EXCEPT !.pc = IF RaceDir(p) \in dirs THEN "remove-existing"
                                                              ELSE "worktree-add",
                              !.tr = @ \o <<Log("log", "creating-worktree", RaceBranch[p])>>])
        /\ UNCHANGED <<worldVars, cfgVars, proj, run>>

\* createWorktree, line 92: git worktree remove --force info.worktreeDir;
\* the exit code is not read
RaceRemoveExisting(p, removable) ==
    LET me     == race.procs[p]
        remove == GitWorktreeRemove(World, RaceDir(p), removable)
    IN  /\ me.pc = "remove-existing"
        /\ SetWorld(remove.w)
        /\ Step(p, [me EXCEPT !.pc = "worktree-add",
                              !.tr = @ \o <<Log("warn", "removing-existing-worktree", RaceDir(p)),
                                            Cmd("git", "worktree-remove", RaceDir(p),
                                                remove.code)>>])
        /\ UNCHANGED <<hist, cfgVars, proj, run>>

\* createWorktree, lines 100-111: git worktree add -b, throw on non-zero
RaceWorktreeAdd(p) ==
    LET me  == race.procs[p]
        add == GitWorktreeAdd(World, RaceBranch[p], RaceDir(p))
    IN  /\ me.pc = "worktree-add"
        /\ SetWorld(add.w)
        /\ Step(p, [me EXCEPT !.pc = IF add.code = 0 THEN "make-setup" ELSE "done",
                              !.tr = @ \o <<Cmd("git", "worktree-add", RaceDir(p), add.code)>>
                                       \o (IF add.code = 0 THEN <<>> ELSE <<Exit(1)>>)])
        /\ UNCHANGED <<hist, cfgVars, proj, run>>

\* setupWorktree, lines 127-129: make setup in the worktree
RaceMakeSetup(p, setupOk) ==
    LET me == race.procs[p]
    IN  /\ me.pc = "make-setup"
        /\ Step(p, [me EXCEPT !.pc = IF setupOk THEN "done" ELSE "rollback-worktree",
                              !.tr = @ \o <<Cmd("make", "setup", RaceDir(p),
                                                IF setupOk THEN 0 ELSE 2)>>])
        /\ UNCHANGED <<worldVars, cfgVars, proj, run>>

\* setupWorktree, line 132: git worktree remove --force info.worktreeDir
RaceRollbackWorktree(p, removable) ==
    LET me     == race.procs[p]
        remove == GitWorktreeRemove(World, RaceDir(p), removable)
    IN  /\ me.pc = "rollback-worktree"
        /\ SetWorld(remove.w)
        /\ Step(p, [me EXCEPT !.pc = "rollback-branch",
                              !.tr = @ \o <<Cmd("git", "worktree-remove", RaceDir(p),
                                                remove.code)>>])
        /\ UNCHANGED <<hist, cfgVars, proj, run>>

\* setupWorktree, lines 133-137: git branch -D info.branchName, then throw
RaceRollbackBranch(p) ==
    LET me  == race.procs[p]
        del == GitBranchDelete(World, RaceBranch[p])
    IN  /\ me.pc = "rollback-branch"
        /\ SetWorld(del.w)
        /\ Step(p, [me EXCEPT !.pc = "done",
                              !.tr = @ \o <<Cmd("git", "branch-D", RaceBranch[p], del.code),
                                            Exit(1)>>])
        /\ UNCHANGED <<hist, cfgVars, proj, run>>

NextRaceWorktree ==
    \/ \E p \in Procs : RaceExistsSync(p)
    \/ \E p \in Procs : \E removable \in BOOLEAN : RaceRemoveExisting(p, removable)
    \/ \E p \in Procs : RaceWorktreeAdd(p)
    \/ \E p \in Procs : \E setupOk \in BOOLEAN : RaceMakeSetup(p, setupOk)
    \/ \E p \in Procs : \E removable \in BOOLEAN : RaceRollbackWorktree(p, removable)
    \/ \E p \in Procs : RaceRollbackBranch(p)

SpecRaceWorktree == InitRaceWorktree /\ [][NextRaceWorktree]_vars

\* launch p is through createWorktree and setupWorktree without a throw
SetUp(procs, p) ==
    /\ procs[p].pc = "done"
    /\ Cmd("make", "setup", RaceDir(p), 0) \in Events(procs[p].tr)

\* the worktree directory, its registration and the branch of launch p
Holding(w, p) ==
    [dir    |-> RaceDir(p) \in w.dirs,
     reg    |-> {t \in w.worktrees : t.path = RaceDir(p)},
     branch |-> RaceBranch[p] \in w.branches]

WorldAfter ==
    [dirs |-> dirs', worktrees |-> worktrees', branches |-> branches', windows |-> windows']

\* C35: two launches with distinct branch names running at once under one
\* configuration, in any interleaving of their steps, each end with their own
\* worktree directory and branch, and no step of one launch removes,
\* overwrites or rolls back the worktree or branch of the other
C35_ConcurrentLaunchesKeepApart ==
    [][\A p \in Procs : \A q \in Procs \ {p} :
           /\ race'.procs[p] # race.procs[p] => Holding(WorldAfter, q) = Holding(World, q)
           /\ SetUp(race'.procs, p) =>
                  Holding(WorldAfter, p) =
                      [dir    |-> TRUE,
                       reg    |-> {[path |-> RaceDir(p), branch |-> RaceBranch[p]]},
                       branch |-> TRUE]]_vars

\* one launch rolled its worktree back after the other's was added, and the
\* other's stands
C35_Witness ==
    \E p \in Procs : \E q \in Procs \ {p} :
        /\ SetUp(race.procs, p)
        /\ race.procs[q].pc = "done"
        /\ Cmd("git", "branch-D", RaceBranch[q], 0) \in Events(race.procs[q].tr)
        /\ Holding(World, p).dir /\ Holding(World, p).branch
        /\ ~Holding(World, q).dir /\ ~Holding(World, q).branch

(***************************************************************************)
(* A launch, then a reset with every prompt accepted                       *)
(***************************************************************************)

\* the operator answers y to both prompts, no removal fails, and there is
\* no ./.multiclaude
YesResetEnv ==
    [chmodOk |-> TRUE, removable |-> TRUE, rmOk |-> TRUE, scaffoldExists |-> FALSE,
     worktreesAnswer |-> "y", windowsAnswer |-> "y", pruneOk |-> TRUE, missing |-> "none"]

\* npx multiclaude reset, right after the first command
ResetAfter(env) ==
    /\ hist # <<>> /\ Tail(hist) = <<>>
    /\ Ran("reset", hist[1].b, NoOptions, reset(World, env))

NextLaunchReset ==
    \/ \E b \in Names : \E env \in LaunchEnvs(World) : Launch(b, env)
    \/ ResetAfter(YesResetEnv)

SpecLaunchReset == Init /\ [][NextLaunchReset]_vars

\* C36: a successful launch(b, plan) followed by reset with every
\* confirmation accepted leaves no worktree directory for b, no branch b and
\* no tmux window named b, whatever the branch name b
C36_ResetUndoesAnyLaunch ==
    (TwoRuns("launch", "reset") /\ ExitCode(hist[1].tr) = 0) =>
        /\ Wt(hist[1].b) \notin dirs
        /\ hist[1].b \notin branches
        /\ WindowsNamed(World, hist[1].b) = {}

(***************************************************************************)
(* What exit code 0 stands for                                             *)
(***************************************************************************)

\* C37: runCommand reports code 0 only for a child that exited with status
\* 0; a child ended by a signal, or otherwise without an exit status, is
\* never reported to the caller as code 0
C37_ZeroMeansExitedZero ==
    (run.called /\ run.promise.settled = "resolved" /\ run.promise.code = 0) =>
        (run.child.kind = "exit" /\ run.child.status = 0)

(***************************************************************************)
(* A launch that aborts while creating the worktree                        *)
(***************************************************************************)

\* launch left createWorktree by an exception: `git worktree add` exited
\* non-zero, or a copy into the new worktree failed
AbortedInCreate(tr) ==
    /\ ExitCode(tr) # 0
    /\ \E e \in Issued(tr, {"worktree-add", "copy-files"}) : e.code \notin {0, SpawnError}

\* C38: when launch aborts inside the create-worktree step (git worktree
\* add exits non-zero, or copying .claude or the plan file into the new
\* worktree fails), no working tree and no branch for b created by this
\* launch remain when it exits
C38_AbortedCreateLeavesNothing ==
    (OneRun("launch") /\ AbortedInCreate(hist[1].tr)) =>
        IF Cmd("git", "worktree-add", Wt(hist[1].b), 0) \in Events(hist[1].tr)
        THEN /\ Wt(hist[1].b) \notin dirs
             /\ ~Registered(World, Wt(hist[1].b))
             /\ hist[1].b \notin branches
        ELSE /\ dirs \subseteq hist[1].pre.dirs
             /\ worktrees \subseteq hist[1].pre.worktrees
             /\ branches \subseteq hist[1].pre.branches

(***************************************************************************)
(* Reset run from inside the worktree of a worker                          *)
(***************************************************************************)

\* the invocation of MainCfgIn moved into the worktree of worker N1, with
\* MULTICLAUDE_REPO_NAME naming the repository
InsideCfgIn ==
    [MainCfgIn EXCEPT !.cwd = WorktreePath(loadConfig(MainCfgIn).config, N1),
                      !.envRepoName = loadConfig(MainCfgIn).config.repoName]

\* the current directory is a registered worktree
InitInside ==
    /\ cfgIn = InsideCfgIn
    /\ cfgOut = [loaded |-> TRUE, out |-> loadConfig(InsideCfgIn)]
    /\ \E w \in InitWorlds : /\ InsideCfgIn.cwd \in w.dirs
                             /\ Registered(w, InsideCfgIn.cwd)
                             /\ dirs = w.dirs
                             /\ worktrees = w.worktrees
                             /\ branches = w.branches
                             /\ windows = w.windows
    /\ hist = <<>>
    /\ race = NoRace
    /\ proj = NoProject
    /\ run = NoRun

NextInside ==
    \E env \in ResetEnvs : Reset(env)

SpecInside == InitInside /\ [][NextInside]_vars

\* the worktree paths the prompts of a run showed, accepted or not
Offered(tr) ==
    UNION {{e.items[n][1] : n \in DOMAIN e.items} :
           e \in {x \in Events(tr) : x.k = "prompt" /\ x.x = "worktrees"}}

\* C39: reset never offers for deletion, and never removes, the working
\* tree that is the current working directory of the invoking process, even
\* when its path or branch matches the worker naming patterns
C39_CwdWorktreeIsSpared ==
    OneRun("reset") =>
        /\ cfgIn.cwd \notin Offered(hist[1].tr)
        /\ cfgIn.cwd \in dirs
        /\ Registered(World, cfgIn.cwd)

====
